---- MODULE Spec2Model ----
(***************************************************************************)
(* Reader Highlighter (src/main.ts): the document patcher                  *)
(* (persistHighlight, persistAdjustedHighlight, removeHighlight and the    *)
(* two occurrence scans) and the controller around it (selection events,   *)
(* the remove button, the mobile adjustment session and its timers).       *)
(*                                                                         *)
(* Text is a sequence of one-character strings.  Offsets are 0-based, as   *)
(* in the source, so content.slice(i, j) is Slice(content, i, j).          *)
(***************************************************************************)
EXTENDS Integers, Sequences, FiniteSets, TLC

VARIABLES
  doc,               \* the note's text in the vault
  call,              \* the last patcher operation run to completion, NoCall before any
  rt,                \* two consecutive creates of one text: the text, the note before, the count
  mobile,            \* isMobile()
  dom,               \* the preview: the blocks and inline nodes last rendered
  selection,         \* window.getSelection()
  adjustmentState,   \* this.adjustmentState, NoAdj when undefined
  removeButtonState, \* this.removeButtonState, NoButton when undefined
  buttons,           \* remove-button elements attached to document.body
  ops,               \* operations awaiting vault.read or vault.modify
  started,           \* operations started so far
  rerenderTimers,    \* pending timers of showRemoveButtonAfterRerender, oldest first
  orphanTimers,      \* pending commit timers no debounceTimer field refers to
  touchTimers,       \* pending 10 ms timers of the container's touchend listener
  story,             \* history: two creates in a row, the second before the first settled
  sessionDoc,        \* history: the note when the adjustment session was entered
  last,              \* history: the handler that ran last and how it ended
  bind               \* the open views, boundContainers, documentEventsBound, the listeners

patchVars == <<doc, call, rt>>
ctlVars == <<mobile, dom, selection, adjustmentState, removeButtonState, buttons,
             ops, started, rerenderTimers, orphanTimers, touchTimers, story, sessionDoc,
             last, bind>>
vars == <<doc, call, rt, mobile, dom, selection, adjustmentState,
          removeButtonState, buttons, ops, started, rerenderTimers, orphanTimers,
          touchTimers, story, sessionDoc, last, bind>>

\* ------------------------------------------------------------------ bounds
MaxSegs == 5
MaxTextLen == 2
MaxInFlight == 2
MaxOps == 2
MaxRerender == 2
MaxTimers == 1
MaxViews == 2
MaxRefresh == 2

Alphabet == {"a", "b", "="}
Letters == {"a", "b"}

StringsUpTo(S, n) == UNION {[1..k -> S] : k \in 0..n}

RECURSIVE Flatten(_)
Flatten(ss) == IF ss = <<>> THEN <<>> ELSE Head(ss) \o Flatten(Tail(ss))

\* A note is at most MaxSegs segments, each one character or one `==`
\* delimiter: every string of at most MaxSegs characters, and the longer
\* ones that markers make.
Segs == {<<c>> : c \in Alphabet} \cup {<<"=", "=">>}
Docs == {Flatten(ss) : ss \in StringsUpTo(Segs, MaxSegs)}

\* A serialized selection or highlight body: rendered text (the renderer
\* hides the markers), or a stray `=`.
Texts == (StringsUpTo(Letters, MaxTextLen) \ {<<>>}) \cup {<<"=">>}

\* ------------------------------------------------------- string primitives
Min(a, b) == IF a < b THEN a ELSE b
Max(a, b) == IF a > b THEN a ELSE b

\* String.prototype.slice(i, j) for 0 <= i: characters i .. j-1, clamped.
Slice(s, i, j) == SubSeq(s, Max(0, i) + 1, Min(j, Len(s)))

\* String.prototype.slice(i): from offset i to the end.
SliceFrom(s, i) == Slice(s, i, Len(s))

\* String.prototype.indexOf(needle, from) for a non-empty needle; -1 if none.
IndexOf(content, needle, from) ==
  LET hits == {k \in from..(Len(content) - Len(needle)) :
                  Slice(content, k, k + Len(needle)) = needle}
  IN IF hits = {} THEN -1 ELSE CHOOSE k \in hits : \A m \in hits : k <= m

Delim == <<"=", "=">>

\* `==${text}==`
Wrap(text) == Delim \o text \o Delim

\* A faulty scan that resumes one character after the start of a match.
RECURSIVE ScanAllOverlapping(_, _, _)
ScanAllOverlapping(content, needle, from) ==
  LET idx == IndexOf(content, needle, from)
  IN IF idx = -1 THEN <<>>
     ELSE <<idx>> \o ScanAllOverlapping(content, needle, idx + 1)

\* findAllOccurrences: the loop of lines 354-358, resumed from offset `from`.
RECURSIVE ScanAll(_, _, _)
ScanAll(content, needle, from) ==
  LET idx == IndexOf(content, needle, from)
  IN IF idx = -1 THEN <<>>
     ELSE <<idx>> \o ScanAll(content, needle, idx + Len(needle))

findAllOccurrences(content, needle) ==
  IF needle = <<>> THEN <<>> ELSE ScanAll(content, needle, 0)

\* The test of line 371 on the occurrence at idx.
OutsideHighlight(content, selected, idx) ==
  LET before == Slice(content, Max(0, idx - 2), idx)
      after == Slice(content, idx + Len(selected), idx + Len(selected) + 2)
  IN before # Delim /\ after # Delim

\* findOccurrencesOutsideHighlight: the loop of lines 366-375.
RECURSIVE ScanOutside(_, _, _)
ScanOutside(content, selected, from) ==
  LET idx == IndexOf(content, selected, from)
  IN IF idx = -1 THEN <<>>
     ELSE (IF OutsideHighlight(content, selected, idx) THEN <<idx>> ELSE <<>>)
          \o ScanOutside(content, selected, idx + Len(selected))

findOccurrencesOutsideHighlight(content, selected) ==
  IF selected = <<>> THEN <<>> ELSE ScanOutside(content, selected, 0)

\* ------------------------------------------------------- the patch engine
\* A faulty wrap that loses the character after the wrapped text.
WrapAtDroppingOne(content, idx, text) ==
  Slice(content, 0, idx) \o Wrap(text) \o SliceFrom(content, idx + Len(text) + 1)

\* content.slice(0, idx) + `==text==` + content.slice(idx + text.length)
WrapAt(content, idx, text) ==
  Slice(content, 0, idx) \o Wrap(text) \o SliceFrom(content, idx + Len(text))

\* content.slice(0, idx) + text + content.slice(idx + `==text==`.length)
UnwrapAt(content, idx, text) ==
  Slice(content, 0, idx) \o text \o SliceFrom(content, idx + Len(Wrap(text)))

Refuse(kind, content) == [kind |-> kind, write |-> FALSE, newContent |-> content]
Patch(kind, newContent) == [kind |-> kind, write |-> TRUE, newContent |-> newContent]

\* persistHighlight between its read and its modify (lines 270-290).
CreatePatch(content, markdown) ==
  LET existingMatches == findAllOccurrences(content, Wrap(markdown))
      positions == findOccurrencesOutsideHighlight(content, markdown)
  IN IF Len(existingMatches) > 1 THEN Refuse("ambiguousExisting", content)
     ELSE IF Len(existingMatches) = 1
       THEN Patch("unwrap", UnwrapAt(content, existingMatches[1], markdown))
     ELSE IF Len(positions) # 1 THEN Refuse("ambiguous", content)
     ELSE Patch("wrap", WrapAt(content, positions[1], markdown))

\* A faulty choice that takes the first position wherever it lies.
NearbyPositionAnywhere(newPositions, idx, originalText) ==
  IF newPositions = <<>> THEN -1 ELSE newPositions[1]

\* Array.prototype.find of lines 328-330: the first position in the window.
NearbyPosition(newPositions, idx, originalText) ==
  LET near == {i \in 1..Len(newPositions) :
                 newPositions[i] >= idx /\ newPositions[i] <= idx + Len(originalText)}
  IN IF near = {} THEN -1
     ELSE newPositions[CHOOSE i \in near : \A j \in near : i <= j]

\* persistAdjustedHighlight between its read and its modify (lines 311-341).
AdjustPatch(content, originalText, newText) ==
  LET matches == findAllOccurrences(content, Wrap(originalText))
  IN IF Len(matches) # 1 THEN Refuse("ambiguousExisting", content)
     ELSE LET idx == matches[1]
              unwrappedContent == UnwrapAt(content, idx, originalText)
              newPositions == findOccurrencesOutsideHighlight(unwrappedContent, newText)
              nearbyPosition == NearbyPosition(newPositions, idx, originalText)
          IN IF nearbyPosition = -1 THEN Refuse("notFound", content)
             ELSE Patch("rewrap", WrapAt(unwrappedContent, nearbyPosition, newText))

\* A faulty removal that unwraps the first `==text==` however many there are.
RemovePatchFirstMatch(content, highlightText) ==
  LET matches == findAllOccurrences(content, Wrap(highlightText))
  IN IF Len(matches) = 0 THEN Refuse("ambiguousExisting", content)
     ELSE Patch("unwrap", UnwrapAt(content, matches[1], highlightText))

\* removeHighlight between its read and its modify (lines 641-649).
RemovePatch(content, highlightText) ==
  LET matches == findAllOccurrences(content, Wrap(highlightText))
  IN IF Len(matches) # 1 THEN Refuse("ambiguousExisting", content)
     ELSE Patch("unwrap", UnwrapAt(content, matches[1], highlightText))

\* The checks each operation makes before its first await.
\* "skip": returns at once with failure; "same": returns true at once
\* (line 307); "go": goes on to vault.read.
Precheck(op, file, originalText, text) ==
  IF ~file THEN "skip"
  ELSE IF op = "adjust" /\ (originalText = <<>> \/ text = <<>>) THEN "skip"
  ELSE IF op = "adjust" /\ originalText = text THEN "same"
  ELSE IF op = "remove" /\ text = <<>> THEN "skip"
  ELSE "go"

PatchOf(op, content, originalText, text) ==
  IF op = "create" THEN CreatePatch(content, text)
  ELSE IF op = "adjust" THEN AdjustPatch(content, originalText, text)
  ELSE RemovePatch(content, text)

\* ------------------------------------------- one operation, run on its own
\* What the vault does during the operation: both calls resolve, the file
\* handle is null (view.file), read rejects, or modify rejects.
Envs == {"ok", "noFile", "readFails", "modifyFails"}

NoCall == [op |-> "none", originalText |-> <<>>, text |-> <<>>, env |-> "ok",
           before |-> <<>>, reads |-> FALSE, modifies |-> FALSE,
           newContent |-> <<>>, written |-> FALSE, kind |-> "none", ret |-> FALSE]
NoRT == [text |-> <<>>, doc0 |-> <<>>, n |-> 0]

\* An operation from its entry to its return with no other operation in
\* between: the prechecks, vault.read, the patch, vault.modify, the catch.
RunOperation(op, originalText, text, env) ==
  \E pre \in {Precheck(op, env # "noFile", originalText, text)} :
  \E p \in {IF pre = "go" /\ env # "readFails"
            THEN PatchOf(op, doc, originalText, text)
            ELSE Refuse(IF pre = "go" THEN "readFailed" ELSE pre, doc)} :
    LET modifies == p.write
        written == modifies /\ env # "modifyFails"
    IN /\ doc' = IF written THEN p.newContent ELSE doc
       /\ call' = [op |-> op, originalText |-> originalText, text |-> text, env |-> env,
                   before |-> doc, reads |-> pre = "go", modifies |-> modifies,
                   newContent |-> IF modifies THEN p.newContent ELSE <<>>,
                   written |-> written, kind |-> p.kind,
                   ret |-> pre = "same" \/ written]
       /\ UNCHANGED ctlVars

\* Each run is one operation on a note of Docs (every note an earlier
\* operation could have left, up to the bound), or a create followed by a
\* second create: the re-selection of the text just highlighted.
persistHighlight(markdown, env) ==
  /\ RunOperation("create", <<>>, markdown, env)
  /\ rt' = IF env = "ok" /\ rt.n = 0 THEN [text |-> markdown, doc0 |-> doc, n |-> 1]
           ELSE IF env = "ok" /\ rt.text = markdown THEN [rt EXCEPT !.n = 2]
           ELSE NoRT

persistAdjustedHighlight(originalText, newText, env) ==
  /\ RunOperation("adjust", originalText, newText, env)
  /\ rt' = NoRT

removeHighlight(highlightText, env) ==
  /\ RunOperation("remove", <<>>, highlightText, env)
  /\ rt' = NoRT


\* ----------------------------------------------------- the rendered preview
NL == "\n"
InitDoc == <<"a", "b", NL, "b">>

\* A note that already holds two highlights of the same text, one a line.
TwinDoc == Wrap(<<"b">>) \o <<NL>> \o Wrap(<<"b">>)

\* A note of one list item, `- a`.
ListMarker == <<"-", " ">>
ListDoc == ListMarker \o <<"a">>
PairDoc == Wrap(<<"a", "b">>) \o <<NL>> \o Wrap(<<"b">>)
MarksDoc == Wrap(<<"a">>) \o <<NL>> \o Wrap(<<"b">>)
InitDocs == {InitDoc, TwinDoc, ListDoc}

\* The note's lines: one rendered block (a paragraph) each.
RECURSIVE SplitLines(_)
SplitLines(s) ==
  LET idx == IndexOf(s, <<NL>>, 0)
  IN IF idx = -1 THEN <<s>>
     ELSE <<Slice(s, 0, idx)>> \o SplitLines(SliceFrom(s, idx + 1))

\* The inline nodes of one block: `==body==` renders as a mark element,
\* any other character as itself.
RECURSIVE RenderNodes(_, _)
RenderNodes(s, i) ==
  IF i >= Len(s) THEN <<>>
  ELSE LET j == IF Slice(s, i, i + 2) = Delim THEN IndexOf(s, Delim, i + 3) ELSE -1
       IN IF j # -1
          THEN <<[mark |-> TRUE, text |-> Slice(s, i + 2, j)]>> \o RenderNodes(s, j + 2)
          ELSE <<[mark |-> FALSE, text |-> <<s[i + 1]>>]>> \o RenderNodes(s, i + 1)

\* What a line shows: a list item shows the text after its marker.
LineBody(line) ==
  IF Slice(line, 0, Len(ListMarker)) = ListMarker THEN SliceFrom(line, Len(ListMarker))
  ELSE line

\* The preview of note d: its blocks in order, each the inline nodes of a line.
Rendered(d) ==
  [b \in 1..Len(SplitLines(d)) |-> RenderNodes(LineBody(SplitLines(d)[b]), 0)]

Blocks(tree) == 1..Len(tree)

\* serializeRangeToMarkdown of a block's whole content: text nodes give
\* their characters, a mark element only its children (lines 228-229, 252-253).
RECURSIVE NodesText(_)
NodesText(nodes) ==
  IF nodes = <<>> THEN <<>> ELSE Head(nodes).text \o NodesText(Tail(nodes))
BlockText(tree, b) == NodesText(tree[b])

RECURSIVE MarksOfNodes(_, _)
MarksOfNodes(nodes, b) ==
  IF nodes = <<>> THEN <<>>
  ELSE (IF Head(nodes).mark THEN <<[block |-> b, text |-> Head(nodes).text]>> ELSE <<>>)
       \o MarksOfNodes(Tail(nodes), b)

\* container.querySelectorAll('mark'), in document order.
RECURSIVE MarksFrom(_, _)
MarksFrom(tree, b) ==
  IF b > Len(tree) THEN <<>>
  ELSE MarksOfNodes(tree[b], b) \o MarksFrom(tree, b + 1)
Marks(tree) == MarksFrom(tree, 1)

\* findMarkElement: the first mark with the text, else the last mark, else
\* null (0).  normalizeText is the identity on text without whitespace.
findMarkElement(tree, text) ==
  LET marks == Marks(tree)
      exact == {k \in 1..Len(marks) : marks[k].text = text}
  IN IF exact # {} THEN CHOOSE k \in exact : \A m \in exact : k <= m
     ELSE Len(marks)

Substrings(t) == {Slice(t, i, j) : <<i, j>> \in {ij \in (0..Len(t)) \X (0..Len(t)) : ij[1] < ij[2]}}

NoSel == [collapsed |-> TRUE, start |-> 0, end |-> 0, text |-> <<>>]
Range(startBlock, endBlock, text) ==
  [collapsed |-> FALSE, start |-> startBlock, end |-> endBlock, text |-> text]

\* What the user can select in the preview: text inside one block, a range
\* from the first block into the second, a range outside every block
\* (getBlock gives null: block 0), or nothing.
UserSelections(tree) ==
  UNION {{Range(b, b, t) : t \in Substrings(BlockText(tree, b))} : b \in Blocks(tree)}
  \cup {Range(1, 2, BlockText(tree, 1) \o BlockText(tree, 2)) : b \in Blocks(tree) \cap {2}}
  \cup {Range(0, 0, <<"a">>), NoSel}

\* ------------------------------------------------------ controller state
NoAdj == [active |-> FALSE, block |-> 0, originalText |-> <<>>, isDragging |-> FALSE,
          debounceTimer |-> "none", hasRange |-> FALSE, lastSelectionRange |-> <<>>]
NoButton == [shown |-> FALSE, mark |-> 0, highlightText |-> <<>>]
NoStory == [stage |-> 0, text1 |-> <<>>, text2 |-> <<>>, ok1 |-> "pending", ok2 |-> "pending"]

\* dismissRemoveButton on (removeButtonState, attached buttons).
dismissRemoveButton(rb, n) ==
  IF ~rb.shown THEN [rb |-> rb, n |-> n] ELSE [rb |-> NoButton, n |-> n - 1]

\* A faulty showRemoveButton that appends without dismissing first.
showRemoveButtonKeepingOld(rb, n, mark, highlightText) ==
  [rb |-> [shown |-> TRUE, mark |-> mark, highlightText |-> highlightText], n |-> n + 1]

\* showRemoveButton: dismiss, append a new button, store the state.
showRemoveButton(rb, n, mark, highlightText) ==
  [rb |-> [shown |-> TRUE, mark |-> mark, highlightText |-> highlightText],
   n |-> dismissRemoveButton(rb, n).n + 1]

\* A faulty exitAdjustmentMode that clears the timer and keeps the session.
exitAdjustmentModeKeepingSession(adj) ==
  IF adj.active THEN [adj EXCEPT !.debounceTimer = "none"] ELSE adj

\* exitAdjustmentMode: clearTimeout(debounceTimer) and forget the session.
exitAdjustmentMode(adj) == NoAdj

\* enterAdjustmentMode: exit, then a fresh session.
enterAdjustmentMode(adj, block, originalText) ==
  [exitAdjustmentMode(adj) EXCEPT !.active = TRUE, !.block = block,
                                  !.originalText = originalText]

\* An operation that has issued vault.read.  content: what the read
\* returned, kept in the operation's local variable while vault.modify is
\* awaited.  sessionOpen (history): of an adjust, that the session has not
\* gone Idle by a collapsed selection or by one outside its block since the
\* adjust began.
NewOp(op, originalText, text, sel, tag) ==
  [op |-> op, originalText |-> originalText, text |-> text, pc |-> "reading",
   kind |-> "none", content |-> <<>>, newContent |-> <<>>,
   start |-> sel.start, end |-> sel.end, tag |-> tag, sessionOpen |-> TRUE,
   superseded |-> FALSE]

\* A new session has been entered (history): the adjusts in flight were
\* begun by an earlier one.
Superseded(os) ==
  [i \in 1..Len(os) |-> IF os[i].op = "adjust" THEN [os[i] EXCEPT !.superseded = TRUE]
                        ELSE os[i]]

\* The session has gone Idle: the adjusts in flight outlive it.
Outlived(os) ==
  [i \in 1..Len(os) |-> IF os[i].op = "adjust" THEN [os[i] EXCEPT !.sessionOpen = FALSE]
                        ELSE os[i]]

RemoveAt(seq, i) == SubSeq(seq, 1, i - 1) \o SubSeq(seq, i + 1, Len(seq))

\* Nothing is pending: no operation, no timer.
Quiet ==
  /\ ops = <<>> /\ rerenderTimers = <<>> /\ touchTimers = 0 /\ orphanTimers = 0
  /\ adjustmentState.debounceTimer # "armed"

\* The first create of the story has not run its course: its operation or
\* its re-render timer is pending.
FirstPending ==
  \/ \E i \in 1..Len(ops) : ops[i].tag = 1
  \/ \E j \in 1..Len(rerenderTimers) : rerenderTimers[j].tag = 1

\* The story of two creates: a create that starts while no operation and no
\* re-render timer is pending opens it (tag 1), a create that starts while
\* the first is pending is the second (tag 2), and anything else spoils it.
StoryOnCreate(text) ==
  IF ops = <<>> /\ rerenderTimers = <<>> THEN [NoStory EXCEPT !.stage = 1, !.text1 = text]
  ELSE IF story.stage = 1 /\ FirstPending THEN [story EXCEPT !.stage = 2, !.text2 = text]
  ELSE [NoStory EXCEPT !.stage = 3]
StoryTag(text) == StoryOnCreate(text).stage
StorySpoiled == IF story.stage = 0 THEN story ELSE [NoStory EXCEPT !.stage = 3]
StoryOnResult(tag, wrapped) ==
  IF tag = 1 /\ story.stage \in {1, 2}
    THEN [story EXCEPT !.ok1 = IF wrapped THEN "wrapped" ELSE "no"]
  ELSE IF tag = 2 /\ story.stage = 2
    THEN [story EXCEPT !.ok2 = IF wrapped THEN "wrapped" ELSE "no"]
  ELSE story

\* ------------------------------------------------------------ the handlers
\* A faulty block test that looks at the start of the range only.
StartInBlock(sel) == sel.start # 0

\* Lines 100-101: both ends of the range resolve to one and the same block.
SameBlock(sel) == sel.start # 0 /\ sel.start = sel.end

\* The body of handleSelectionChange on the session adj when the selection
\* is sel: the session and the selection it leaves, and whether it left the
\* block.  After its removeAllRanges the handler runs once more on the
\* collapsed selection and finds no session.
SelectionChange(adj, sel) ==
  IF ~adj.active \/ ~mobile THEN [adj |-> adj, sel |-> sel, left |-> FALSE]
  ELSE IF sel.collapsed THEN [adj |-> exitAdjustmentMode(adj), sel |-> sel, left |-> FALSE]
  ELSE IF sel.start = 0 \/ sel.end = 0 \/ sel.start # adj.block \/ sel.end # adj.block
    THEN [adj |-> exitAdjustmentMode(adj), sel |-> NoSel, left |-> TRUE]
  ELSE [adj |-> [adj EXCEPT !.isDragging = TRUE, !.hasRange = TRUE,
                            !.lastSelectionRange = sel.text, !.debounceTimer = "none"],
        sel |-> sel, left |-> FALSE]

\* A faulty listener that persists every change of the selection at once.
handleSelectionChangeCommitting(sel) ==
  /\ sel # selection
  /\ Len(ops) < MaxInFlight /\ started < MaxOps
  /\ \E r \in {SelectionChange(adjustmentState, sel)} :
       /\ adjustmentState' = r.adj
       /\ selection' = r.sel
       /\ ops' = IF r.adj.active
                 THEN Append(ops, NewOp("adjust", r.adj.originalText, sel.text, NoSel, 0))
                 ELSE ops
       /\ started' = IF r.adj.active THEN started + 1 ELSE started
       /\ last' = IF r.left THEN "selchange:leftBlock" ELSE "selchange"
  /\ UNCHANGED <<bind, doc, call, rt, mobile, dom, removeButtonState, buttons,
                 rerenderTimers, orphanTimers, touchTimers, story, sessionDoc>>

\* The selection becomes sel (the user drags a handle, selects, or taps it
\* away) and the selectionchange listener runs.
handleSelectionChange(sel) ==
  /\ sel # selection
  /\ \E r \in {SelectionChange(adjustmentState, sel)} :
       /\ adjustmentState' = r.adj
       /\ selection' = r.sel
       /\ ops' = IF adjustmentState.active /\ ~r.adj.active THEN Outlived(ops) ELSE ops
       /\ last' = IF r.left THEN "selchange:leftBlock"
                  ELSE IF r.adj.active /\ adjustmentState.debounceTimer = "armed"
                    THEN "selchange:afterRelease"
                  ELSE "selchange"
  /\ UNCHANGED <<bind, doc, call, rt, mobile, dom, removeButtonState, buttons, started,
                 rerenderTimers, orphanTimers, touchTimers, story, sessionDoc>>

\* handleSelectionEvent up to the await of persistHighlight, which runs up
\* to its vault.read.  multiClick: a MouseEvent with detail >= 2.
SelectionEvent(preview, multiClick) ==
  IF ~preview \/ multiClick \/ adjustmentState.active \/ selection.collapsed
    THEN /\ last' = "other"
         /\ UNCHANGED <<selection, ops, started, story>>
  ELSE IF ~SameBlock(selection)
    THEN /\ last' = "selection:notOneBlock"
         /\ UNCHANGED <<selection, ops, started, story>>
  ELSE IF selection.text = <<>>
    THEN /\ last' = "other"
         /\ UNCHANGED <<selection, ops, started, story>>
  ELSE /\ Len(ops) < MaxInFlight /\ started < MaxOps
       /\ selection' = NoSel
       /\ ops' = Append(ops, NewOp("create", <<>>, selection.text, selection,
                                   StoryTag(selection.text)))
       /\ started' = started + 1
       /\ story' = StoryOnCreate(selection.text)
       /\ last' = "other"

\* mouseup or keyup on the container.
handleSelectionEvent(preview, multiClick) ==
  /\ SelectionEvent(preview, multiClick)
  /\ UNCHANGED <<bind, doc, call, rt, mobile, dom, adjustmentState, removeButtonState, buttons,
                 rerenderTimers, orphanTimers, touchTimers, sessionDoc>>

\* The 10 ms timer of the container's touchend listener (line 65).
TouchTimerFire(preview) ==
  /\ touchTimers > 0
  /\ touchTimers' = touchTimers - 1
  /\ SelectionEvent(preview, FALSE)
  /\ UNCHANGED <<bind, doc, call, rt, mobile, dom, adjustmentState, removeButtonState, buttons,
                 rerenderTimers, orphanTimers, sessionDoc>>

\* A faulty handler that highlights the word under the pointer, here the
\* first of the block.
handleDoubleClickWord(b, preview) ==
  /\ IF ~preview
       THEN /\ last' = "other"
            /\ UNCHANGED <<adjustmentState, selection, ops, started, story>>
     ELSE IF b = 0 \/ BlockText(dom, b) = <<>>
       THEN /\ adjustmentState' = exitAdjustmentMode(adjustmentState)
            /\ last' = "other"
            /\ UNCHANGED <<selection, ops, started, story>>
     ELSE /\ Len(ops) < MaxInFlight /\ started < MaxOps
          /\ adjustmentState' = exitAdjustmentMode(adjustmentState)
          /\ selection' = NoSel
          /\ ops' = Append(ops, NewOp("create", <<>>, Head(dom[b]).text,
                                      Range(b, b, <<>>), StoryTag(Head(dom[b]).text)))
          /\ started' = started + 1
          /\ story' = StoryOnCreate(Head(dom[b]).text)
          /\ last' = "dblclick:block"
  /\ UNCHANGED <<bind, doc, call, rt, mobile, dom, removeButtonState, buttons,
                 rerenderTimers, orphanTimers, touchTimers, sessionDoc>>

\* handleDoubleClick on a target in block b (0: outside every block).
handleDoubleClick(b, preview) ==
  /\ IF ~preview
       THEN /\ last' = "other"
            /\ UNCHANGED <<adjustmentState, selection, ops, started, story>>
     ELSE IF b = 0 \/ BlockText(dom, b) = <<>>
       THEN /\ adjustmentState' = exitAdjustmentMode(adjustmentState)
            /\ last' = "other"
            /\ UNCHANGED <<selection, ops, started, story>>
     ELSE /\ Len(ops) < MaxInFlight /\ started < MaxOps
          /\ adjustmentState' = exitAdjustmentMode(adjustmentState)
          /\ selection' = NoSel
          /\ ops' = Append(ops, NewOp("create", <<>>, BlockText(dom, b),
                                      Range(b, b, <<>>), StoryTag(BlockText(dom, b))))
          /\ started' = started + 1
          /\ story' = StoryOnCreate(BlockText(dom, b))
          /\ last' = "dblclick:block"
  /\ UNCHANGED <<bind, doc, call, rt, mobile, dom, removeButtonState, buttons,
                 rerenderTimers, orphanTimers, touchTimers, sessionDoc>>

\* A faulty removeHighlight that starts the removal and leaves the button.
StartRemoveKeepingButton(highlightText) ==
  LET starts == Precheck("remove", TRUE, <<>>, highlightText) = "go"
  IN /\ starts => Len(ops) < MaxInFlight /\ started < MaxOps
     /\ ops' = IF starts THEN Append(ops, NewOp("remove", <<>>, highlightText, NoSel, 0))
               ELSE ops
     /\ started' = IF starts THEN started + 1 ELSE started
     /\ story' = StorySpoiled
     /\ last' = "other"
     /\ UNCHANGED <<bind, doc, call, rt, mobile, dom, selection, adjustmentState,
                    removeButtonState, buttons,
                    rerenderTimers, orphanTimers, touchTimers, sessionDoc>>

\* removeHighlight up to its vault.read (lines 632-640).
StartRemove(highlightText) ==
  LET starts == Precheck("remove", TRUE, <<>>, highlightText) = "go"
  IN /\ starts => Len(ops) < MaxInFlight /\ started < MaxOps
     /\ removeButtonState' = dismissRemoveButton(removeButtonState, buttons).rb
     /\ buttons' = dismissRemoveButton(removeButtonState, buttons).n
     /\ ops' = IF starts THEN Append(ops, NewOp("remove", <<>>, highlightText, NoSel, 0))
               ELSE ops
     /\ started' = IF starts THEN started + 1 ELSE started
     /\ story' = StorySpoiled
     /\ last' = "other"
     /\ UNCHANGED <<bind, doc, call, rt, mobile, dom, selection, adjustmentState,
                    rerenderTimers, orphanTimers, touchTimers, sessionDoc>>

\* A click on the remove button: its listener stops the propagation from
\* document.body, where the button hangs outside the container.
ClickButton ==
  /\ removeButtonState.shown
  /\ StartRemove(removeButtonState.highlightText)

\* keydown on the remove button (lines 597-605).
KeyDownButton(key) ==
  /\ removeButtonState.shown
  /\ IF key = "Escape"
       THEN /\ removeButtonState' = dismissRemoveButton(removeButtonState, buttons).rb
            /\ buttons' = dismissRemoveButton(removeButtonState, buttons).n
            /\ story' = StorySpoiled
            /\ last' = "key:Escape"
            /\ UNCHANGED <<bind, doc, call, rt, mobile, dom, selection, adjustmentState,
                           ops, started, rerenderTimers, orphanTimers, touchTimers,
                           sessionDoc>>
     ELSE StartRemove(removeButtonState.highlightText)

\* A faulty document click handler that dismisses the button wherever the
\* click lands.
handleDocumentClickAnywhere(rb, n, k) ==
  IF ~rb.shown THEN [rb |-> rb, n |-> n]
  ELSE dismissRemoveButton(rb, n)

\* handleDocumentClick on a click whose target is mark k (0: no mark),
\* with rb the button state handleHighlightTap left.
handleDocumentClick(rb, n, k) ==
  IF ~rb.shown THEN [rb |-> rb, n |-> n]
  ELSE IF k # 0 /\ rb.mark = k THEN [rb |-> rb, n |-> n]
  ELSE dismissRemoveButton(rb, n)

\* A click in the preview on mark k: the container's handleHighlightTap,
\* then the document's handleDocumentClick, then the selectionchange that
\* the tap's addRange queued.
handleHighlightTap(k, preview) ==
  LET markText == Marks(dom)[k].text
      block == Marks(dom)[k].block
      skip == \/ ~preview
              \/ removeButtonState.shown /\ removeButtonState.highlightText = markText
              \/ adjustmentState.active /\ adjustmentState.originalText = markText
      shown == IF skip THEN [rb |-> removeButtonState, n |-> buttons]
               ELSE showRemoveButton(removeButtonState, buttons, k, markText)
      after == handleDocumentClick(shown.rb, shown.n, k)
      entered == SelectionChange(enterAdjustmentMode(adjustmentState, block, markText),
                                 Range(block, block, markText))
  IN /\ k \in 1..Len(Marks(dom))
     /\ removeButtonState' = after.rb
     /\ buttons' = after.n
     /\ adjustmentState' =
          IF skip THEN adjustmentState
          ELSE IF mobile THEN entered.adj
          ELSE exitAdjustmentMode(adjustmentState)
     /\ selection' = IF ~skip /\ mobile THEN entered.sel ELSE selection
     /\ sessionDoc' = IF ~skip /\ mobile THEN doc ELSE sessionDoc
     /\ ops' = IF ~skip /\ mobile THEN Superseded(ops) ELSE ops
     /\ story' = StorySpoiled
     /\ last' = IF removeButtonState.shown /\ removeButtonState.mark = k
                THEN "tap:bound"
                ELSE IF preview /\ removeButtonState.shown /\ removeButtonState.mark # 0
                THEN "tap:other"
                ELSE "other"
     /\ UNCHANGED <<bind, doc, call, rt, mobile, dom, started, rerenderTimers, orphanTimers,
                    touchTimers>>

\* A click anywhere else: handleHighlightTap finds no mark,
\* handleDocumentClick dismisses the button.
ClickElsewhere ==
  /\ removeButtonState.shown
  /\ removeButtonState' = handleDocumentClick(removeButtonState, buttons, 0).rb
  /\ buttons' = handleDocumentClick(removeButtonState, buttons, 0).n
  /\ story' = StorySpoiled
  /\ last' = "click:outside"
  /\ UNCHANGED <<bind, doc, call, rt, mobile, dom, selection, adjustmentState,
                 ops, started, rerenderTimers, orphanTimers, touchTimers, sessionDoc>>

\* handleTouchStart (registered on mobile only, line 81).
handleTouchStart ==
  /\ mobile
  /\ adjustmentState' =
       IF adjustmentState.active /\ ~selection.collapsed
       THEN [adjustmentState EXCEPT !.isDragging = TRUE] ELSE adjustmentState
  /\ last' = "other"
  /\ UNCHANGED <<bind, doc, call, rt, mobile, dom, selection, removeButtonState, buttons,
                 ops, started, rerenderTimers, orphanTimers, touchTimers, story, sessionDoc>>

\* A touch ends: inContainer, the container's listener arms its 10 ms timer
\* (line 65); on mobile the document's listener runs handleTouchEnd, whose
\* setTimeout overwrites debounceTimer without clearing the one it held.
handleTouchEnd(inContainer) ==
  LET commits == mobile /\ adjustmentState.active /\ adjustmentState.isDragging
      orphaned == commits /\ adjustmentState.debounceTimer = "armed"
  IN /\ inContainer \/ mobile
     /\ inContainer => touchTimers < MaxTimers
     /\ orphaned => orphanTimers < MaxTimers
     /\ touchTimers' = IF inContainer THEN touchTimers + 1 ELSE touchTimers
     /\ orphanTimers' = IF orphaned THEN orphanTimers + 1 ELSE orphanTimers
     /\ adjustmentState' =
          IF commits
          THEN [adjustmentState EXCEPT !.isDragging = FALSE, !.debounceTimer = "armed"]
          ELSE adjustmentState
     /\ last' = "other"
     /\ UNCHANGED <<bind, doc, call, rt, mobile, dom, selection, removeButtonState,
                    buttons, ops, started, rerenderTimers, story, sessionDoc>>

\* The 50 ms timer of handleTouchEnd fires: the one debounceTimer holds
\* (orphan = FALSE) or one that an overwrite left behind.  Its callback runs
\* persistAdjustment up to the vault.read of persistAdjustedHighlight.
persistAdjustment(orphan) ==
  LET newText == adjustmentState.lastSelectionRange
      starts == /\ adjustmentState.active /\ adjustmentState.hasRange
                /\ Precheck("adjust", TRUE, adjustmentState.originalText, newText) = "go"
  IN /\ IF orphan THEN orphanTimers > 0
        ELSE adjustmentState.active /\ adjustmentState.debounceTimer = "armed"
     /\ starts => Len(ops) < MaxInFlight /\ started < MaxOps
     /\ started' = IF starts THEN started + 1 ELSE started
     /\ orphanTimers' = IF orphan THEN orphanTimers - 1 ELSE orphanTimers
     /\ adjustmentState' = IF orphan THEN adjustmentState
                           ELSE [adjustmentState EXCEPT !.debounceTimer = "spent"]
     /\ ops' = IF starts
               THEN Append(ops, NewOp("adjust", adjustmentState.originalText, newText,
                                      NoSel, 0))
               ELSE ops
     /\ last' = "other"
     /\ UNCHANGED <<bind, doc, call, rt, mobile, dom, selection, removeButtonState,
                    buttons, rerenderTimers, touchTimers, story, sessionDoc>>

\* The host rebuilds the preview from the note: the old nodes, the mark the
\* button was placed under and a selection inside them are gone, and the
\* selectionchange listener sees the selection collapse.
Render ==
  /\ dom # Rendered(doc)
  /\ dom' = Rendered(doc)
  /\ selection' = NoSel
  /\ adjustmentState' = IF selection.collapsed THEN adjustmentState
                        ELSE SelectionChange(adjustmentState, NoSel).adj
  /\ ops' = IF adjustmentState.active /\ ~adjustmentState'.active THEN Outlived(ops)
            ELSE ops
  /\ removeButtonState' = IF removeButtonState.shown
                          THEN [removeButtonState EXCEPT !.mark = 0] ELSE removeButtonState
  /\ last' = "other"
  /\ UNCHANGED <<bind, doc, call, rt, mobile, buttons, started, rerenderTimers,
                 orphanTimers, touchTimers, story, sessionDoc>>

\* A faulty timer callback that enters adjustment mode on every platform.
showRemoveButtonAfterRerenderAnywhere ==
  LET text == Head(rerenderTimers).text
      mark == findMarkElement(dom, text)
      block == Marks(dom)[mark].block
      entered == SelectionChange(enterAdjustmentMode(adjustmentState, block, text),
                                 Range(block, block, Marks(dom)[mark].text))
  IN /\ rerenderTimers # <<>>
     /\ dom = Rendered(doc)
     /\ rerenderTimers' = Tail(rerenderTimers)
     /\ IF mark = 0
          THEN UNCHANGED <<removeButtonState, buttons, selection, adjustmentState,
                           sessionDoc, ops>>
          ELSE /\ removeButtonState' = showRemoveButton(removeButtonState, buttons, mark, text).rb
               /\ buttons' = showRemoveButton(removeButtonState, buttons, mark, text).n
               /\ selection' = entered.sel
               /\ adjustmentState' = entered.adj
               /\ sessionDoc' = doc
               /\ ops' = Superseded(ops)
     /\ last' = "other"
     /\ UNCHANGED <<bind, doc, call, rt, mobile, dom, started, orphanTimers, touchTimers,
                    story>>

\* The 50 ms timer of showRemoveButtonAfterRerender fires, the host having
\* rebuilt the preview by then; the timers fire in the order they were set.
\* On mobile the selectionchange that addRange queued follows.
showRemoveButtonAfterRerender ==
  LET text == Head(rerenderTimers).text
      mark == findMarkElement(dom, text)
      block == Marks(dom)[mark].block
      entered == SelectionChange(enterAdjustmentMode(adjustmentState, block, text),
                                 Range(block, block, Marks(dom)[mark].text))
  IN /\ rerenderTimers # <<>>
     /\ dom = Rendered(doc)
     /\ rerenderTimers' = Tail(rerenderTimers)
     /\ IF mark = 0
          THEN UNCHANGED <<removeButtonState, buttons, selection, adjustmentState,
                           sessionDoc, ops>>
          ELSE /\ removeButtonState' = showRemoveButton(removeButtonState, buttons, mark, text).rb
               /\ buttons' = showRemoveButton(removeButtonState, buttons, mark, text).n
               /\ selection' = IF mobile THEN entered.sel ELSE selection
               /\ adjustmentState' = IF mobile THEN entered.adj ELSE adjustmentState
               /\ sessionDoc' = IF mobile THEN doc ELSE sessionDoc
               /\ ops' = IF mobile THEN Superseded(ops) ELSE ops
     /\ last' = "other"
     /\ UNCHANGED <<bind, doc, call, rt, mobile, dom, started, orphanTimers, touchTimers,
                    story>>

\* A faulty continuation that sets the re-render timer whatever create returned.
FinishUnconditionally(o, ret) ==
  /\ rerenderTimers' = IF o.op = "create"
                       THEN Append(rerenderTimers, [text |-> o.text, tag |-> o.tag, kind |-> o.kind])
                       ELSE rerenderTimers
  /\ adjustmentState' = IF o.op = "adjust" /\ ret /\ adjustmentState.active
                        THEN [adjustmentState EXCEPT !.originalText = o.text]
                        ELSE adjustmentState
  /\ story' = IF o.op = "create" THEN StoryOnResult(o.tag, ret /\ o.kind = "wrap")
              ELSE story

\* A faulty continuation that leaves the session its stale text after a
\* successful adjust.
FinishKeepingOriginal(o, ret) ==
  /\ rerenderTimers' = IF o.op = "create" /\ ret
                       THEN Append(rerenderTimers, [text |-> o.text, tag |-> o.tag, kind |-> o.kind])
                       ELSE rerenderTimers
  /\ adjustmentState' = adjustmentState
  /\ story' = IF o.op = "create" THEN StoryOnResult(o.tag, ret /\ o.kind = "wrap")
              ELSE story

\* What follows the await in the caller once operation o has returned ret:
\* a persisted create sets its re-render timer (lines 108-113, 138-143), a
\* successful adjust renames the session still open (lines 548-552).
Finish(o, ret) ==
  /\ rerenderTimers' = IF o.op = "create" /\ ret
                       THEN Append(rerenderTimers, [text |-> o.text, tag |-> o.tag, kind |-> o.kind])
                       ELSE rerenderTimers
  /\ adjustmentState' = IF o.op = "adjust" /\ ret /\ adjustmentState.active
                        THEN [adjustmentState EXCEPT !.originalText = o.text]
                        ELSE adjustmentState
  /\ story' = IF o.op = "create" THEN StoryOnResult(o.tag, ret /\ o.kind = "wrap")
              ELSE story

\* A faulty operation that patches the note as it was when first loaded.
ReadDoneFromCache(i, readOk) ==
  /\ i \in 1..Len(ops)
  /\ ops[i].pc = "reading"
  /\ \E p \in {IF readOk THEN PatchOf(ops[i].op, InitDoc, ops[i].originalText,
                                       ops[i].text)
               ELSE Refuse("readFailed", doc)} :
       IF p.write
       THEN /\ ops' = [ops EXCEPT ![i].pc = "writing", ![i].kind = p.kind,
                                  ![i].content = doc,
                                  ![i].newContent = p.newContent]
            /\ last' = "other"
            /\ UNCHANGED <<rerenderTimers, adjustmentState, story>>
       ELSE /\ ops' = RemoveAt(ops, i)
            /\ Finish([ops[i] EXCEPT !.kind = p.kind], FALSE)
            /\ last' = IF readOk THEN "read:refused" ELSE "read:failed"
  /\ UNCHANGED <<bind, doc, call, rt, mobile, dom, selection, removeButtonState,
                 buttons, started, orphanTimers, touchTimers, sessionDoc>>

\* vault.read of operation i settles: it fails, or it returns the note and
\* the operation decides its patch on it and issues vault.modify or gives up.
ReadDone(i, readOk) ==
  /\ i \in 1..Len(ops)
  /\ ops[i].pc = "reading"
  /\ \E p \in {IF readOk THEN PatchOf(ops[i].op, doc, ops[i].originalText, ops[i].text)
               ELSE Refuse("readFailed", doc)} :
       IF p.write
       THEN /\ ops' = [ops EXCEPT ![i].pc = "writing", ![i].kind = p.kind,
                                  ![i].content = doc,
                                  ![i].newContent = p.newContent]
            /\ last' = "other"
            /\ UNCHANGED <<rerenderTimers, adjustmentState, story>>
       ELSE /\ ops' = RemoveAt(ops, i)
            /\ Finish([ops[i] EXCEPT !.kind = p.kind], FALSE)
            /\ last' = IF readOk THEN "read:refused" ELSE "read:failed"
  /\ UNCHANGED <<bind, doc, call, rt, mobile, dom, selection, removeButtonState,
                 buttons, started, orphanTimers, touchTimers, sessionDoc>>

\* vault.modify of operation i settles: the note is replaced, or the call
\* fails and the operation returns false.
WriteDone(i, writeOk) ==
  /\ i \in 1..Len(ops)
  /\ ops[i].pc = "writing"
  /\ (ops[i].op = "create" /\ writeOk) => Len(rerenderTimers) < MaxRerender
  /\ doc' = IF writeOk THEN ops[i].newContent ELSE doc
  /\ ops' = RemoveAt(ops, i)
  /\ Finish(ops[i], writeOk)
  /\ last' = "other"
  /\ UNCHANGED <<bind, call, rt, mobile, dom, selection, removeButtonState, buttons,
                 started, orphanTimers, touchTimers, sessionDoc>>

\* ------------------------------------------------------------ the plugin
\* ------------------------------------------------- binding the listeners
\* A view is its preview container: not opened yet ("none"), in preview
\* mode before previewMode has a containerEl ("bare"), in preview mode,
\* in source mode, or closed for good.
Views == 1..MaxViews
ViewStates == {"none", "bare", "preview", "source", "closed"}

\* The plugin as constructed: boundContainers empty, documentEventsBound
\* false, no listener registered, onload not run yet.  unloaded: onunload
\* has run and the host has removed the registered listeners.
NoBind ==
  [views |-> [v \in Views |-> "none"],
   loaded |-> FALSE,
   unloaded |-> FALSE,
   boundContainers |-> {},
   documentEventsBound |-> FALSE,
   containerListeners |-> [v \in Views |-> 0],
   documentListeners |-> 0,
   touchListeners |-> 0,
   refreshes |-> 0]

\* The mutation that registers on a container whether or not it is bound.
attachPreviewHandlersUnguarded(b, v) ==
  IF b.views[v] = "bare"
  THEN b
  ELSE [b EXCEPT !.boundContainers = @ \cup {v},
                 !.containerListeners[v] = @ + 1,
                 !.documentEventsBound = TRUE,
                 !.documentListeners = IF b.documentEventsBound THEN @ ELSE @ + 1,
                 !.touchListeners = IF ~b.documentEventsBound /\ mobile THEN @ + 1 ELSE @]

\* attachPreviewHandlers(view): nothing without a container or on a bound
\* one; else the container is bound and gets its mouseup, keyup, touchend,
\* dblclick and click listeners, and the first container ever bound also
\* brings the document's selectionchange and click listeners and, on
\* mobile, its touchstart and touchend listeners.
attachPreviewHandlers(b, v) ==
  IF b.views[v] = "bare" \/ v \in b.boundContainers
  THEN b
  ELSE [b EXCEPT !.boundContainers = @ \cup {v},
                 !.containerListeners[v] = @ + 1,
                 !.documentEventsBound = TRUE,
                 !.documentListeners = IF b.documentEventsBound THEN @ ELSE @ + 1,
                 !.touchListeners = IF ~b.documentEventsBound /\ mobile THEN @ + 1 ELSE @]

\* refreshPreviewBindings, from leaf v on: each markdown leaf in preview
\* mode is handed to attachPreviewHandlers.
RECURSIVE refreshPreviewBindings(_, _)
refreshPreviewBindings(b, v) ==
  IF v > MaxViews
  THEN b
  ELSE refreshPreviewBindings(
         IF b.views[v] \in {"bare", "preview"} THEN attachPreviewHandlers(b, v) ELSE b,
         v + 1)

\* The plugin loaded on a workspace with one note open in preview mode.
Loaded ==
  refreshPreviewBindings([NoBind EXCEPT !.views[1] = "preview", !.loaded = TRUE], 1)

\* The controller at rest, as the constructor leaves it.
CtlIdle ==
  /\ selection = NoSel
  /\ adjustmentState = NoAdj
  /\ removeButtonState = NoButton
  /\ buttons = 0
  /\ ops = <<>>
  /\ started = 0
  /\ rerenderTimers = <<>>
  /\ orphanTimers = 0
  /\ touchTimers = 0
  /\ story = NoStory
  /\ sessionDoc = <<>>
  /\ last = "init"

Init ==
  /\ doc \in InitDocs
  /\ dom = Rendered(doc)
  /\ mobile \in BOOLEAN
  /\ call = NoCall
  /\ rt = NoRT
  /\ CtlIdle
  /\ bind = Loaded

Next ==
  \/ \E sel \in UserSelections(dom) : handleSelectionChange(sel)
  \/ \E preview, multiClick \in BOOLEAN : handleSelectionEvent(preview, multiClick)
  \/ \E preview \in BOOLEAN : TouchTimerFire(preview)
  \/ \E b \in {0} \cup Blocks(dom), preview \in BOOLEAN : handleDoubleClick(b, preview)
  \/ ClickButton
  \/ \E key \in {"Enter", "Escape"} : KeyDownButton(key)
  \/ \E k \in 1..Len(Marks(dom)), preview \in BOOLEAN : handleHighlightTap(k, preview)
  \/ ClickElsewhere
  \/ handleTouchStart
  \/ \E inContainer \in BOOLEAN : handleTouchEnd(inContainer)
  \/ \E orphan \in BOOLEAN : persistAdjustment(orphan)
  \/ Render
  \/ showRemoveButtonAfterRerender
  \/ \E i \in 1..MaxInFlight, readOk \in BOOLEAN : ReadDone(i, readOk)
  \/ \E i \in 1..MaxInFlight, writeOk \in BOOLEAN : WriteDone(i, writeOk)

Spec == Init /\ [][Next]_vars

\* Highlighting on its own, on a note that holds two highlights, `a` and
\* `b`, one in each paragraph: the user selects and double-clicks, and
\* neither taps a highlight nor uses the remove button.
InitMarks ==
  /\ doc = MarksDoc
  /\ dom = Rendered(doc)
  /\ mobile \in BOOLEAN
  /\ call = NoCall
  /\ rt = NoRT
  /\ CtlIdle
  /\ bind = Loaded

MarksNext ==
  \/ \E sel \in UserSelections(dom) : handleSelectionChange(sel)
  \/ \E preview, multiClick \in BOOLEAN : handleSelectionEvent(preview, multiClick)
  \/ \E b \in {0} \cup Blocks(dom), preview \in BOOLEAN : handleDoubleClick(b, preview)
  \/ Render
  \/ showRemoveButtonAfterRerender
  \/ \E i \in 1..MaxInFlight, readOk \in BOOLEAN : ReadDone(i, readOk)
  \/ \E i \in 1..MaxInFlight, writeOk \in BOOLEAN : WriteDone(i, writeOk)

SpecMarks == InitMarks /\ [][MarksNext]_vars

\* onunload: the session and the button are dropped; the host then removes
\* what registerDomEvent and registerEvent registered.  Timers set with
\* setTimeout, vault calls in flight and the listeners of a button stay.
onunload ==
  /\ bind.loaded /\ ~bind.unloaded
  /\ bind' = [bind EXCEPT !.unloaded = TRUE]
  /\ adjustmentState' = exitAdjustmentMode(adjustmentState)
  /\ removeButtonState' = dismissRemoveButton(removeButtonState, buttons).rb
  /\ buttons' = dismissRemoveButton(removeButtonState, buttons).n
  /\ last' = "onunload"
  /\ UNCHANGED <<doc, call, rt, mobile, dom, selection, ops, started, rerenderTimers,
                 orphanTimers, touchTimers, story, sessionDoc>>

\* The plugin from load to unload and after: the registered listeners run
\* until onunload, the timers and the vault callbacks also afterwards.
UnloadInit ==
  /\ doc = InitDoc
  /\ dom = Rendered(doc)
  /\ mobile \in BOOLEAN
  /\ call = NoCall
  /\ rt = NoRT
  /\ CtlIdle
  /\ bind = Loaded

UnloadNext ==
  \/ ~bind.unloaded /\ \E sel \in UserSelections(dom) : handleSelectionChange(sel)
  \/ ~bind.unloaded /\ \E preview, multiClick \in BOOLEAN :
                          handleSelectionEvent(preview, multiClick)
  \/ \E preview \in BOOLEAN : TouchTimerFire(preview)
  \/ ~bind.unloaded /\ \E b \in {0} \cup Blocks(dom), preview \in BOOLEAN :
                          handleDoubleClick(b, preview)
  \/ ClickButton
  \/ \E key \in {"Enter", "Escape"} : KeyDownButton(key)
  \/ ~bind.unloaded /\ \E k \in 1..Len(Marks(dom)), preview \in BOOLEAN :
                          handleHighlightTap(k, preview)
  \/ ~bind.unloaded /\ ClickElsewhere
  \/ ~bind.unloaded /\ handleTouchStart
  \/ ~bind.unloaded /\ \E inContainer \in BOOLEAN : handleTouchEnd(inContainer)
  \/ \E orphan \in BOOLEAN : persistAdjustment(orphan)
  \/ Render
  \/ showRemoveButtonAfterRerender
  \/ \E i \in 1..MaxInFlight, readOk \in BOOLEAN : ReadDone(i, readOk)
  \/ \E i \in 1..MaxInFlight, writeOk \in BOOLEAN : WriteDone(i, writeOk)
  \/ onunload

SpecUnload == UnloadInit /\ [][UnloadNext]_vars

\* The adjustment session on its own, on a mobile device and a note that
\* already holds two highlights of different text: the user taps
\* highlights and drags the handles, and neither selects with a pointer
\* nor uses the remove button.
InitPair ==
  /\ doc = PairDoc
  /\ dom = Rendered(doc)
  /\ mobile = TRUE
  /\ call = NoCall
  /\ rt = NoRT
  /\ CtlIdle
  /\ bind = Loaded

PairNext ==
  \/ \E sel \in UserSelections(dom) : handleSelectionChange(sel)
  \/ \E k \in 1..Len(Marks(dom)), preview \in BOOLEAN : handleHighlightTap(k, preview)
  \/ handleTouchStart
  \/ \E inContainer \in BOOLEAN : handleTouchEnd(inContainer)
  \/ \E orphan \in BOOLEAN : persistAdjustment(orphan)
  \/ Render
  \/ \E i \in 1..MaxInFlight, readOk \in BOOLEAN : ReadDone(i, readOk)
  \/ \E i \in 1..MaxInFlight, writeOk \in BOOLEAN : WriteDone(i, writeOk)

SpecPair == InitPair /\ [][PairNext]_vars

\* ------------------------------------------- the patcher, one call at a time
\* The three operations on any note, the controller at rest: a call runs
\* from its read to its return with nothing in between.
PatchInit ==
  /\ doc \in Docs
  /\ call = NoCall
  /\ rt = NoRT
  /\ mobile = FALSE
  /\ dom = <<>>
  /\ CtlIdle
  /\ bind = Loaded

Fresh == call = NoCall
Reselect == rt.n = 1

PatchNext ==
  \/ /\ Fresh \/ Reselect
     /\ \E markdown \in Texts, env \in Envs : persistHighlight(markdown, env)
  \/ /\ Fresh
     /\ \E originalText \in Texts, newText \in Texts, env \in Envs :
          persistAdjustedHighlight(originalText, newText, env)
  \/ /\ Fresh
     /\ \E highlightText \in Texts, env \in Envs : removeHighlight(highlightText, env)

SpecPatch == PatchInit /\ [][PatchNext]_vars

\* --------------------------------- the handle-drag variant (part_000)
\* persistAdjustedHighlight of src/unnamed/part_000 between its read and
\* its modify: the one `==originalText==` is replaced by `==newText==`.
HandleAdjustPatch(content, originalText, newText) ==
  LET matches == findAllOccurrences(content, Wrap(originalText))
  IN IF Len(matches) # 1 THEN Refuse("ambiguousExisting", content)
     ELSE Patch("replace", Slice(content, 0, matches[1]) \o Wrap(newText)
                             \o SliceFrom(content, matches[1] + Len(Wrap(originalText))))

\* finalizeDrag on a highlight whose text is originalText, the dragged
\* range serializing to newText: the variant's persistAdjustedHighlight
\* from its entry to its return.
persistAdjustedHighlightByHandle(originalText, newText, env) ==
  \E pre \in {IF env = "noFile" THEN "skip"
              ELSE IF originalText = <<>> \/ newText = <<>> THEN "skip"
              ELSE IF Wrap(originalText) = Wrap(newText) THEN "same"
              ELSE "go"} :
  \E p \in {IF pre = "go" /\ env # "readFails"
            THEN HandleAdjustPatch(doc, originalText, newText)
            ELSE Refuse(IF pre = "go" THEN "readFailed" ELSE pre, doc)} :
    LET written == p.write /\ env # "modifyFails"
    IN /\ doc' = IF written THEN p.newContent ELSE doc
       /\ call' = [op |-> "handleAdjust", originalText |-> originalText, text |-> newText,
                   env |-> env, before |-> doc, reads |-> pre = "go", modifies |-> p.write,
                   newContent |-> IF p.write THEN p.newContent ELSE <<>>,
                   written |-> written, kind |-> p.kind,
                   ret |-> pre = "same" \/ written]
       /\ rt' = NoRT
       /\ UNCHANGED ctlVars

HandlesNext ==
  /\ Fresh
  /\ \E originalText \in Texts, newText \in Texts, env \in Envs :
       persistAdjustedHighlightByHandle(originalText, newText, env)

SpecHandles == PatchInit /\ [][HandlesNext]_vars

\* ------------------------------------- the serializer, one range at a time
\* A cloned range: text nodes and elements, an element holding text nodes.
\* Range.cloneContents keeps an element the range only enters, with the text
\* inside the range, which may be empty.
MaxNodes == 2
MaxData == 2
Whitespace == {" ", NL}
TextNode(data) == [tag |-> "#text", data |-> data, href |-> <<>>, kids |-> <<>>]
Element(tag, href, kids) == [tag |-> tag, data |-> <<>>, href |-> href, kids |-> kids]
TextNodes == {TextNode(d) : d \in StringsUpTo({"a", " "}, MaxData)}
Tags == {"strong", "b", "em", "i", "code", "a", "mark", "del", "br", "span"}
Elements ==
  {Element(t, <<>>, k) : t \in Tags \ {"br"}, k \in StringsUpTo(TextNodes, 1)}
  \cup {Element("a", <<"u">>, k) : k \in StringsUpTo(TextNodes, 1)}
  \cup {Element("br", <<>>, <<>>)}
Fragments == StringsUpTo(TextNodes \cup Elements, MaxNodes)

\* The character U+0060, by name.
Backquote == "backquote"

\* nodeToMarkdown and fragmentToMarkdown (lines 223-261).
RECURSIVE fragmentToMarkdown(_)

\* A faulty serializer that writes the markers of a mark element.
nodeToMarkdownMarking(node) ==
  LET childContent == fragmentToMarkdown(node.kids)
  IN IF node.tag = "#text" THEN node.data
     ELSE IF node.tag \in {"strong", "b"} THEN <<"*", "*">> \o childContent \o <<"*", "*">>
     ELSE IF node.tag \in {"em", "i"} THEN <<"*">> \o childContent \o <<"*">>
     ELSE IF node.tag = "code" THEN <<Backquote>> \o childContent \o <<Backquote>>
     ELSE IF node.tag = "a"
       THEN IF node.href # <<>>
            THEN <<"[">> \o childContent \o <<"]", "(">> \o node.href \o <<")">>
            ELSE childContent
     ELSE IF node.tag = "mark" THEN <<"=", "=">> \o childContent \o <<"=", "=">>
     ELSE IF node.tag = "del" THEN <<"~", "~">> \o childContent \o <<"~", "~">>
     ELSE IF node.tag = "br" THEN <<NL>>
     ELSE childContent

\* nodeToMarkdown on a text node or an element.
nodeToMarkdown(node) ==
  LET childContent == fragmentToMarkdown(node.kids)
  IN IF node.tag = "#text" THEN node.data
     ELSE IF node.tag \in {"strong", "b"} THEN <<"*", "*">> \o childContent \o <<"*", "*">>
     ELSE IF node.tag \in {"em", "i"} THEN <<"*">> \o childContent \o <<"*">>
     ELSE IF node.tag = "code" THEN <<Backquote>> \o childContent \o <<Backquote>>
     ELSE IF node.tag = "a"
       THEN IF node.href # <<>>
            THEN <<"[">> \o childContent \o <<"]", "(">> \o node.href \o <<")">>
            ELSE childContent
     ELSE IF node.tag = "mark" THEN childContent
     ELSE IF node.tag = "del" THEN <<"~", "~">> \o childContent \o <<"~", "~">>
     ELSE IF node.tag = "br" THEN <<NL>>
     ELSE childContent

\* fragmentToMarkdown: the serializations of the child nodes, joined.
fragmentToMarkdown(nodes) ==
  IF nodes = <<>> THEN <<>>
  ELSE nodeToMarkdown(Head(nodes)) \o fragmentToMarkdown(Tail(nodes))

\* String.prototype.trim.
RECURSIVE Trim(_)
Trim(s) ==
  IF s = <<>> THEN s
  ELSE IF Head(s) \in Whitespace THEN Trim(Tail(s))
  ELSE IF s[Len(s)] \in Whitespace THEN Trim(SubSeq(s, 1, Len(s) - 1))
  ELSE s

\* serializeRangeToMarkdown of a range whose cloneContents is nodes.
serializeRangeToMarkdown(nodes) == Trim(fragmentToMarkdown(nodes))

\* The preview holds one block, its content the fragment; the block's
\* content is serialized once, the result kept as the selection's text.
SerializeInit ==
  /\ dom \in {<<f>> : f \in Fragments}
  /\ doc = <<>>
  /\ call = NoCall
  /\ rt = NoRT
  /\ mobile = FALSE
  /\ CtlIdle
  /\ bind = Loaded

SerializeBlock ==
  /\ selection = NoSel
  /\ selection' = Range(1, 1, serializeRangeToMarkdown(dom[1]))
  /\ UNCHANGED <<bind, doc, call, rt, mobile, dom, adjustmentState, removeButtonState, buttons,
                 ops, started, rerenderTimers, orphanTimers, touchTimers, story,
                 sessionDoc, last>>

SerializeNext == SerializeBlock

SpecSerialize == SerializeInit /\ [][SerializeNext]_vars

\* ------------------------------------------- the workspace and its events
\* onload: the views already open are bound, then the two workspace
\* events are subscribed to.
onload ==
  /\ ~bind.loaded
  /\ bind' = refreshPreviewBindings([bind EXCEPT !.loaded = TRUE], 1)
  /\ last' = "onload"
  /\ UNCHANGED <<doc, call, rt, mobile, dom, selection, adjustmentState,
                 removeButtonState, buttons, ops, started, rerenderTimers,
                 orphanTimers, touchTimers, story, sessionDoc>>

\* The workspace's layout-change or active-leaf-change event.
WorkspaceEvent(evt) ==
  /\ bind.loaded
  /\ bind.refreshes < MaxRefresh
  /\ bind' = refreshPreviewBindings([bind EXCEPT !.refreshes = @ + 1], 1)
  /\ last' = evt
  /\ UNCHANGED <<doc, call, rt, mobile, dom, selection, adjustmentState,
                 removeButtonState, buttons, ops, started, rerenderTimers,
                 orphanTimers, touchTimers, story, sessionDoc>>

\* The user opens a note in a new view.
OpenView(v, state) ==
  /\ bind.views[v] = "none"
  /\ \A u \in 1..(v - 1) : bind.views[u] # "none"
  /\ bind' = [bind EXCEPT !.views[v] = state]
  /\ UNCHANGED <<doc, call, rt, mobile, dom, selection, adjustmentState,
                 removeButtonState, buttons, ops, started, rerenderTimers,
                 orphanTimers, touchTimers, story, sessionDoc, last>>

\* The view changes mode, or its preview gets its container.
SetMode(v, state) ==
  /\ bind.views[v] \in {"bare", "preview", "source"}
  /\ bind.views[v] # state
  /\ ~(bind.views[v] = "preview" /\ state = "bare")
  /\ bind' = [bind EXCEPT !.views[v] = state]
  /\ UNCHANGED <<doc, call, rt, mobile, dom, selection, adjustmentState,
                 removeButtonState, buttons, ops, started, rerenderTimers,
                 orphanTimers, touchTimers, story, sessionDoc, last>>

\* The view is closed; its container is never seen again.
CloseView(v) ==
  /\ bind.views[v] \in {"bare", "preview", "source"}
  /\ bind' = [bind EXCEPT !.views[v] = "closed"]
  /\ UNCHANGED <<doc, call, rt, mobile, dom, selection, adjustmentState,
                 removeButtonState, buttons, ops, started, rerenderTimers,
                 orphanTimers, touchTimers, story, sessionDoc, last>>

BindInit ==
  /\ doc = <<>>
  /\ dom = <<>>
  /\ mobile \in BOOLEAN
  /\ call = NoCall
  /\ rt = NoRT
  /\ CtlIdle
  /\ bind = NoBind

BindNext ==
  \/ onload
  \/ \E evt \in {"layout-change", "active-leaf-change"} : WorkspaceEvent(evt)
  \/ \E v \in Views, state \in {"bare", "preview", "source"} : OpenView(v, state)
  \/ \E v \in Views, state \in {"preview", "source"} : SetMode(v, state)
  \/ \E v \in Views : CloseView(v)

SpecBind == BindInit /\ [][BindNext]_vars

\* ------------------------------------------------ vocabulary of the claims
NoEq(s) == \A i \in 1..Len(s) : s[i] # "="

\* Offsets at which needle occurs in s, overlapping occurrences included.
OccurrencesOf(s, needle) ==
  {k \in 0..(Len(s) - Len(needle)) : Slice(s, k, k + Len(needle)) = needle}

\* w is r with `==` inserted before offset pos and after offset pos + n.
WrappedAt(r, w, pos, n) ==
  w = Slice(r, 0, pos) \o Delim \o Slice(r, pos, pos + n) \o Delim \o SliceFrom(r, pos + n)

\* The texts r becomes when one delimiter pair around a non-empty body goes.
Unwrappings(r) ==
  {Slice(r, 0, i) \o Slice(r, i + 2, j) \o SliceFrom(r, j + 2) :
     <<i, j>> \in {ij \in (0..Len(r)) \X (0..Len(r)) :
                     /\ ij[1] + 2 < ij[2]
                     /\ Slice(r, ij[1], ij[1] + 2) = Delim
                     /\ Slice(r, ij[2], ij[2] + 2) = Delim}}

\* Properly paired, non-nested Marked Spans: letters and `==letters==`.
RECURSIVE WellFormedFrom(_, _)
WellFormedFrom(s, i) ==
  \/ i = Len(s)
  \/ i < Len(s) /\ s[i + 1] \in Letters /\ WellFormedFrom(s, i + 1)
  \/ /\ Slice(s, i, i + 2) = Delim
     /\ \E j \in (i + 3)..(Len(s) - 2) :
          /\ NoEq(Slice(s, i + 2, j))
          /\ Slice(s, j, j + 2) = Delim
          /\ WellFormedFrom(s, j + 2)
WellFormed(s) == WellFormedFrom(s, 0)

\* The Marked Spans <<start, end>> of a well-formed text from offset i on
\* (start: offset of the opening `==`; end: offset after the closing one).
RECURSIVE SpansFrom(_, _)
SpansFrom(s, i) ==
  IF i >= Len(s) THEN {}
  ELSE IF Slice(s, i, i + 2) = Delim
    THEN LET j == IndexOf(s, Delim, i + 3)
         IN IF j = -1 THEN {} ELSE {<<i, j + 2>>} \cup SpansFrom(s, j + 2)
  ELSE SpansFrom(s, i + 1)
Spans(s) == SpansFrom(s, 0)

\* C1: a write only inserts or deletes `==` delimiters.  Whatever an
\* operation hands to vault.modify is the text it read with one delimiter
\* pair inserted (create), deleted (create on a highlight, remove), or
\* deleted and one inserted (adjust); and the note ends as that text if the
\* write went through and as it was otherwise.
C1_OnlyDelimitersChange ==
  /\ call.modifies /\ call.kind = "wrap" => call.before \in Unwrappings(call.newContent)
  /\ call.modifies /\ call.kind = "unwrap" => call.newContent \in Unwrappings(call.before)
  /\ call.modifies /\ call.kind = "rewrap" =>
       \E u \in Unwrappings(call.before) : u \in Unwrappings(call.newContent)
  /\ call.modifies => call.kind \in {"wrap", "unwrap", "rewrap"}
  /\ call # NoCall => doc = (IF call.written THEN call.newContent ELSE call.before)

C1_Witness ==
  /\ call.op = "adjust" /\ call.written
  /\ Len(call.text) < Len(call.originalText)
  /\ doc # call.before

\* C2: create(T) twice in a row, T without `=`, gives the note back.
C2_RoundTrip ==
  rt.n = 2 /\ NoEq(rt.text) => doc = rt.doc0

\* C3: with exactly one `==O==` in the note and N a proper substring of O,
\* adjust O -> N writes the note with O unwrapped in place and N, inside
\* O's place, the only part of O wrapped.
ShrinkResults(content, O, N) ==
  LET idx == CHOOSE k \in OccurrencesOf(content, Wrap(O)) : TRUE
      unwrapped == Slice(content, 0, idx) \o O \o SliceFrom(content, idx + Len(O) + 4)
  IN {w \in {Slice(unwrapped, 0, idx + k) \o Wrap(N) \o SliceFrom(unwrapped, idx + k + Len(N)) :
               k \in OccurrencesOf(O, N)} : TRUE}

C3_ShrinkKeepsText ==
  /\ call.op = "adjust" /\ call.env = "ok"
  /\ Cardinality(OccurrencesOf(call.before, Wrap(call.originalText))) = 1
  /\ Len(call.text) < Len(call.originalText)
  /\ OccurrencesOf(call.originalText, call.text) # {}
  => /\ call.written
     /\ doc \in ShrinkResults(call.before, call.originalText, call.text)

\* C4: when T occurs at two or more offsets of the note, create(T) fails
\* and writes nothing.
C4_AmbiguityRefusal ==
  /\ call.op = "create" /\ call.env \in {"ok", "modifyFails"}
  /\ Cardinality(OccurrencesOf(call.before, call.text)) >= 2
  => ~call.modifies /\ ~call.ret /\ doc = call.before

\* C7: from a note of properly paired, non-nested Marked Spans a successful
\* operation leaves one, and create wraps no text inside a Marked Span.
C7_MarkersStayPaired ==
  call.written /\ WellFormed(call.before) =>
    /\ WellFormed(doc)
    /\ call.kind = "wrap" =>
         \A pos \in 0..Len(call.before) :
           WrappedAt(call.before, doc, pos, Len(call.text)) =>
             \A sp \in Spans(call.before) : ~(sp[1] < pos /\ pos < sp[2])

\* C5: an operation that ends as Ambiguous or NotFound, or whose read fails,
\* issues no vault.modify and leaves the note as it is, is not started
\* again, and sets no re-render timer, so no remove button and no
\* adjustment session come of it.
C5_RefusalLeavesNoTrace ==
  [][last' \in {"read:refused", "read:failed"} =>
       /\ doc' = doc
       /\ \E i \in 1..Len(ops) : ops[i].pc = "reading" /\ ops' = RemoveAt(ops, i)
       /\ started' = started
       /\ rerenderTimers' = rerenderTimers
       /\ removeButtonState' = removeButtonState /\ buttons' = buttons
       /\ adjustmentState' = adjustmentState]_vars

\* A create, the only operation so far, has just been refused.
C5_Witness ==
  /\ last = "read:refused"
  /\ story.stage = 1 /\ story.ok1 = "no"
  /\ ops = <<>> /\ rerenderTimers = <<>> /\ buttons = 0 /\ doc = InitDoc

\* C6: every create that reached persistHighlight came from a range whose
\* two ends lie in one and the same block; a selection across blocks or
\* outside every block starts no operation.
C6_BlockContainment ==
  \A i \in 1..Len(ops) :
    ops[i].op = "create" => ops[i].start # 0 /\ ops[i].start = ops[i].end

\* handleSelectionEvent has just turned away a selection across two blocks.
C6_Witness ==
  /\ last = "selection:notOneBlock"
  /\ ~selection.collapsed /\ selection.start # selection.end
  /\ ops = <<>> /\ started = 0 /\ doc = InitDoc

\* C8: at most one remove button is attached, and one is attached exactly
\* when removeButtonState is set.
C8_OneRemoveButton ==
  /\ buttons \in {0, 1}
  /\ buttons = 1 <=> removeButtonState.shown

\* Two re-render timers have fired one after the other: the second
\* showRemoveButton found the button of the first.
C8_Witness ==
  /\ story.stage = 2 /\ story.ok1 = "wrapped" /\ story.ok2 = "wrapped"
  /\ ops = <<>> /\ rerenderTimers = <<>>
  /\ buttons = 1 /\ removeButtonState.shown

\* C9: H1 is created and, while its write or its re-render wait is pending,
\* H2; both get wrapped.  Once nothing is pending, one remove button is
\* attached and it is the button of H2.
C9_ButtonOfSecondHighlight ==
  /\ story.stage = 2 /\ story.ok1 = "wrapped" /\ story.ok2 = "wrapped"
  /\ Quiet
  => /\ buttons = 1
     /\ removeButtonState.shown
     /\ removeButtonState.highlightText = story.text2

\* C10 as stated: once a selectionchange has reported a selection outside the
\* session's block, the session is gone and the note is what it was when
\* the session started.
C10_NoteAsBeforeSession ==
  last = "selchange:leftBlock" => ~adjustmentState.active /\ doc = sessionDoc

\* C10, amended: the selectionchange that reports a selection outside the
\* session's block ends the session and clears the selection; the handler
\* itself reads and writes nothing, so the note is what it was just before
\* the signal, adjustments committed earlier in the session included.
C10_TeardownOnLeave ==
  [][last' = "selchange:leftBlock" =>
       /\ adjustmentState.active
       /\ adjustmentState' = NoAdj
       /\ selection' = NoSel
       /\ doc' = doc /\ ops' = Outlived(ops) /\ started' = started]_vars

\* A session has just been torn down by a selection outside its block.
C10_Witness ==
  /\ last = "selchange:leftBlock"
  /\ ~adjustmentState.active /\ selection.collapsed
  /\ sessionDoc # <<>>

\* C11: an adjust that a session began and that is still in flight when the
\* session goes Idle (the selection collapsed or left the block) is
\* discarded: its write does not reach the note.
C11_NoWriteAfterTeardown ==
  [][\A i \in 1..Len(ops) :
       /\ ops[i].op = "adjust" /\ ~ops[i].sessionOpen
       /\ ops[i].pc = "writing" /\ ops' = RemoveAt(ops, i)
       => doc' = doc]_vars

\* C12: a selectionchange by itself starts no operation and leaves the note
\* and the operations in flight where they are; an adjust starts only in
\* the step that fires a commit timer, and a commit timer is armed only by
\* a touch release that ends a drag.
SelectionChangeLabels == {"selchange", "selchange:afterRelease", "selchange:leftBlock"}

C12_CommitOnlyOnSettle ==
  [][/\ last' \in SelectionChangeLabels =>
          /\ doc' = doc /\ started' = started /\ Len(ops') = Len(ops)
          /\ \A i \in 1..Len(ops) : ops'[i].pc = ops[i].pc
          /\ rerenderTimers' = rerenderTimers /\ orphanTimers' = orphanTimers
          /\ adjustmentState'.debounceTimer # "armed"
     /\ (started' > started /\ ops'[Len(ops')].op = "adjust") =>
          \/ orphanTimers' = orphanTimers - 1
          \/ adjustmentState.debounceTimer = "armed" /\ adjustmentState'.debounceTimer = "spent"
     /\ (adjustmentState'.debounceTimer = "armed" /\ adjustmentState.debounceTimer # "armed") =>
          adjustmentState.active /\ adjustmentState.isDragging /\ ~adjustmentState'.isDragging
    ]_vars

\* The listener has just recorded a candidate that differs from the
\* highlight, and nothing has been started.
C12_Witness ==
  /\ last \in SelectionChangeLabels
  /\ adjustmentState.active /\ adjustmentState.hasRange
  /\ adjustmentState.lastSelectionRange # adjustmentState.originalText
  /\ ops = <<>> /\ started = 1

\* C13: a touch release, then the last selectionchange of the drag inside
\* the session's block: persistAdjustment is eventually invoked with the
\* range that selectionchange recorded.  Only the callback of a commit
\* timer invokes persistAdjustment, so once the selection has settled such a
\* timer must still be pending.
C13_SettleKeepsCommitPending ==
  last = "selchange:afterRelease" =>
    adjustmentState.debounceTimer = "armed" \/ orphanTimers > 0

\* C14: persistAdjustment returns while a session is active.  If its
\* persistAdjustedHighlight wrote the note, the session's originalText is the
\* text just committed; if it refused or a vault call failed, the session
\* is as it was: active, with the originalText it had.
C14_CommitRenamesSession ==
  [][\A i \in 1..Len(ops) :
       (ops[i].op = "adjust" /\ adjustmentState.active /\ ops' = RemoveAt(ops, i)) =>
         IF ops[i].pc = "writing" /\ doc' = ops[i].newContent
         THEN /\ adjustmentState'.active
              /\ adjustmentState'.originalText = ops[i].text
         ELSE adjustmentState' = adjustmentState]_vars

\* A session whose originalText is marked in the note now and was not when
\* the session began: an adjust has committed and renamed it.
C14_Witness ==
  /\ adjustmentState.active /\ ops = <<>>
  /\ IndexOf(doc, Wrap(adjustmentState.originalText), 0) # -1
  /\ IndexOf(sessionDoc, Wrap(adjustmentState.originalText), 0) = -1

\* A session that an adjust left as it was: the note still as at the
\* session's start, the candidate range still different from originalText.
C14_FailureWitness ==
  /\ adjustmentState.active /\ ops = <<>> /\ started = MaxOps
  /\ last \in {"read:refused", "read:failed"}
  /\ adjustmentState.hasRange
  /\ adjustmentState.lastSelectionRange # adjustmentState.originalText
  /\ doc = sessionDoc

\* C15: an active session ends on every supersession: a step that starts
\* a create leaves no session; a step that puts the remove button on
\* another highlight leaves no session on the old one; a step that takes
\* the remove button away (outside click, Escape, activation) leaves no
\* session.
C15_SupersessionEndsSession ==
  [][adjustmentState.active =>
       /\ (started' > started /\ ops'[Len(ops')].op = "create") =>
             ~adjustmentState'.active
       /\ (/\ removeButtonState'.shown
           /\ removeButtonState'.highlightText # adjustmentState.originalText
           /\ ~removeButtonState.shown
                \/ removeButtonState'.highlightText # removeButtonState.highlightText) =>
             \/ ~adjustmentState'.active
             \/ adjustmentState'.originalText = removeButtonState'.highlightText
       /\ (removeButtonState.shown /\ ~removeButtonState'.shown) =>
             ~adjustmentState'.active]_vars

\* C16: adjust extends.  With exactly one `==O==` in the note, N longer
\* than O and containing it, and N occurring exactly once in the note with
\* O unwrapped, over O's place and with no delimiter next to it, adjust
\* O -> N writes that note with N wrapped there.
ExtendedOver(content, O, N) ==
  LET idx == CHOOSE k \in OccurrencesOf(content, Wrap(O)) : TRUE
      unwrapped == Slice(content, 0, idx) \o O \o SliceFrom(content, idx + Len(O) + 4)
  IN {Slice(unwrapped, 0, pos) \o Wrap(N) \o SliceFrom(unwrapped, pos + Len(N)) :
        pos \in {k \in OccurrencesOf(unwrapped, N) :
                   /\ Cardinality(OccurrencesOf(unwrapped, N)) = 1
                   /\ k <= idx /\ idx + Len(O) <= k + Len(N)
                   /\ Slice(unwrapped, k - 2, k) # Delim
                   /\ Slice(unwrapped, k + Len(N), k + Len(N) + 2) # Delim}}

C16_ExtendRewraps ==
  /\ call.op = "adjust" /\ call.env = "ok"
  /\ NoEq(call.originalText) /\ NoEq(call.text)
  /\ Cardinality(OccurrencesOf(call.before, Wrap(call.originalText))) = 1
  /\ Len(call.originalText) < Len(call.text)
  /\ OccurrencesOf(call.text, call.originalText) # {}
  /\ ExtendedOver(call.before, call.originalText, call.text) # {}
  => /\ call.written
     /\ doc \in ExtendedOver(call.before, call.originalText, call.text)

\* Offsets of the occurrences of needle in s met reading left to right,
\* each starting at or after the end of the one before.
RECURSIVE DisjointFrom(_, _, _)
DisjointFrom(s, needle, from) ==
  LET next == {k \in OccurrencesOf(s, needle) : k >= from}
  IN IF next = {} THEN {}
     ELSE LET k == CHOOSE x \in next : \A y \in next : x <= y
          IN {k} \cup DisjointFrom(s, needle, k + Len(needle))
DisjointOccurrences(s, needle) == DisjointFrom(s, needle, 0)

\* Offsets at which text occurs in s with no delimiter on either side.
Unmarked(s, text) ==
  {k \in OccurrencesOf(s, text) :
     /\ Slice(s, k - 2, k) # Delim
     /\ Slice(s, k + Len(text), k + Len(text) + 2) # Delim}

\* The places an operation could act on: for create the marked occurrences
\* of its text or, with none, the unmarked ones; for remove the marked
\* occurrences; for adjust the marked occurrences of the original text and,
\* with one, the unmarked occurrences of the new text inside its span.
Targets(op, content, O, N) ==
  IF op = "create"
    THEN IF DisjointOccurrences(content, Wrap(N)) # {}
         THEN DisjointOccurrences(content, Wrap(N)) ELSE Unmarked(content, N)
  ELSE IF op = "remove" THEN DisjointOccurrences(content, Wrap(N))
  ELSE IF Cardinality(DisjointOccurrences(content, Wrap(O))) # 1
    THEN DisjointOccurrences(content, Wrap(O))
  ELSE LET idx == CHOOSE k \in DisjointOccurrences(content, Wrap(O)) : TRUE
           unwrapped == Slice(content, 0, idx) \o O \o SliceFrom(content, idx + Len(O) + 4)
       IN {k \in Unmarked(unwrapped, N) : idx <= k /\ k + Len(N) <= idx + Len(O)}

\* C17: an operation with more than one place to act on fails and hands
\* nothing to vault.modify.
C17_AmbiguousTargetRefused ==
  /\ call.op \in {"create", "adjust", "remove"}
  /\ call.env \in {"ok", "modifyFails"}
  /\ NoEq(call.text) /\ NoEq(call.originalText) /\ call.text # call.originalText
  /\ Cardinality(Targets(call.op, call.before, call.originalText, call.text)) > 1
  => ~call.modifies /\ ~call.ret /\ doc = call.before

\* C18, as stated: removeHighlight writes iff `==text==` occurs at exactly
\* one offset of the note it read, and what it writes is that note with the
\* two delimiters of that occurrence deleted.
C18_RemoveIffOneOffset ==
  call.op = "remove" /\ call.env \in {"ok", "modifyFails"} =>
    LET occ == OccurrencesOf(call.before, Wrap(call.text))
    IN /\ call.modifies <=> Cardinality(occ) = 1
       /\ call.modifies =>
            \A k \in occ : call.newContent = Slice(call.before, 0, k) \o call.text
                                               \o SliceFrom(call.before, k + Len(call.text) + 4)
       /\ doc = (IF call.written THEN call.newContent ELSE call.before)

\* C18, amended: the occurrences are those met reading the note left to
\* right, each starting after the end of the one before.
C18_RemoveIffOneOccurrence ==
  call.op = "remove" /\ call.env \in {"ok", "modifyFails"} =>
    LET occ == DisjointOccurrences(call.before, Wrap(call.text))
    IN /\ call.modifies <=> Cardinality(occ) = 1
       /\ call.modifies =>
            \A k \in occ : call.newContent = Slice(call.before, 0, k) \o call.text
                                               \o SliceFrom(call.before, k + Len(call.text) + 4)
       /\ doc = (IF call.written THEN call.newContent ELSE call.before)

\* A removal that wrote, from a note where `==text==` also begins at a
\* second offset, inside the first.
C18_Witness ==
  /\ call.op = "remove" /\ call.written /\ doc # call.before
  /\ NoEq(call.text)
  /\ Cardinality(OccurrencesOf(call.before, Wrap(call.text))) = 2

\* C19: activating the remove button starts one removeHighlight and
\* leaves no button: the step that starts a removal starts exactly one
\* operation and ends with no button element and no removeButtonState, and
\* the removal's return, whatever its outcome, brings no button back.
C19_ActivationConsumesButton ==
  [][/\ (started' > started /\ ops'[Len(ops')].op = "remove") =>
          /\ removeButtonState.shown
          /\ started' = started + 1 /\ Len(ops') = Len(ops) + 1
          /\ ops'[Len(ops')].text = removeButtonState.highlightText
          /\ buttons' = 0 /\ ~removeButtonState'.shown
     /\ \A i \in 1..Len(ops) :
          (ops[i].op = "remove" /\ ops' = RemoveAt(ops, i)) =>
             buttons' = buttons /\ removeButtonState' = removeButtonState]_vars

\* A removal in flight with the button gone.
C19_Witness ==
  /\ \E i \in 1..Len(ops) : ops[i].op = "remove"
  /\ buttons = 0 /\ ~removeButtonState.shown

\* C20: dismissal does not mutate.  A click outside the button and the
\* bound mark, or Escape on the button, takes the button away and starts
\* no operation and changes no note; a click inside the bound mark leaves
\* a button up on that mark (handleHighlightTap may have put a new one
\* there).  (A click on the button never reaches the document handler: the
\* button's listener stops its propagation.)
C20_DismissalDoesNotMutate ==
  [][/\ last' \in {"click:outside", "key:Escape"} =>
          /\ removeButtonState.shown
          /\ ~removeButtonState'.shown /\ buttons' = 0
          /\ doc' = doc /\ ops' = ops /\ started' = started
     /\ last' = "tap:bound" =>
          /\ removeButtonState'.shown /\ buttons' = 1
          /\ removeButtonState'.mark = removeButtonState.mark
          /\ doc' = doc /\ ops' = ops /\ started' = started]_vars

\* The button just dismissed, the highlight it stood for still in the note.
C20_Witness ==
  /\ last \in {"click:outside", "key:Escape"}
  /\ ~removeButtonState.shown /\ buttons = 0
  /\ Len(Marks(Rendered(doc))) = 1 /\ ops = <<>>

\* The button still up after a click inside its mark.
C20_BoundTapWitness ==
  last = "tap:bound" /\ removeButtonState.shown /\ buttons = 1

\* C21: a tap on a highlight while the remove button stands on another one
\* (its mark still in the preview) ends with exactly one button, bound to
\* the highlight tapped and carrying its text.
C21_TapReplacesButton ==
  [][last' = "tap:other" =>
       /\ buttons' = 1 /\ removeButtonState'.shown
       /\ removeButtonState'.mark \notin {0, removeButtonState.mark}
       /\ removeButtonState'.highlightText = Marks(dom)[removeButtonState'.mark].text]_vars

\* C22: where isMobile() is false there is never an adjustment session,
\* never a commit timer, and persistAdjustedHighlight is never running.
C22_DesktopNeverAdjusts ==
  ~mobile =>
    /\ ~adjustmentState.active
    /\ adjustmentState.debounceTimer # "armed" /\ orphanTimers = 0
    /\ \A i \in 1..Len(ops) : ops[i].op # "adjust"

\* Desktop, the button up on a highlight that the plugin created and the
\* text of a block selected: where a phone would be in a session.
C22_Witness ==
  /\ ~mobile /\ removeButtonState.shown /\ removeButtonState.mark # 0
  /\ started >= 1 /\ ~selection.collapsed /\ SameBlock(selection)

\* new is old with the one marker change of an operation of that kind.
OwnChange(kind, old, new) ==
  IF kind = "wrap" THEN old \in Unwrappings(new)
  ELSE IF kind = "unwrap" THEN new \in Unwrappings(old)
  ELSE \E u \in Unwrappings(old) : u \in Unwrappings(new)

\* C23: no update is lost.  An operation writes after another operation,
\* which read the same note, has written its own change: the note after
\* the second write is the note before it with the second operation's
\* marker change, so the first one's change is still there.
C23_NoLostUpdate ==
  [][\A j \in 1..Len(ops) :
       (/\ ops[j].pc = "writing" /\ ops' = RemoveAt(ops, j)
        /\ ops[j].content # doc /\ doc' # doc) =>
          OwnChange(ops[j].kind, doc, doc')]_vars

\* C24: every write is computed from a read of the same invocation.  An
\* operation that goes on to vault.modify holds the note as it is when its
\* own vault.read resolves and a patch computed from that text, and the
\* note changes only by the vault.modify of such an operation.
C24_PatchFromOwnRead ==
  [][/\ \A i \in 1..Len(ops) :
          (ops[i].pc = "reading" /\ Len(ops') = Len(ops) /\ ops'[i].pc = "writing") =>
             /\ ops'[i].content = doc
             /\ PatchOf(ops[i].op, doc, ops[i].originalText, ops[i].text)
                  = Patch(ops'[i].kind, ops'[i].newContent)
     /\ doc' # doc =>
          \E i \in 1..Len(ops) :
             /\ ops[i].pc = "writing" /\ ops' = RemoveAt(ops, i)
             /\ doc' = ops[i].newContent]_vars

\* An operation about to write a patch of a note that an earlier
\* operation has changed.
C24_Witness ==
  \E i \in 1..Len(ops) :
    /\ ops[i].pc = "writing" /\ ops[i].content = doc
    /\ ops[i].content \notin InitDocs

\* C25: a double-click in a block starts a create whose text is the
\* serialization of that whole block, which lies within the block (no line
\* break); and the create of the item text of the note `- a` writes
\* `- ==a==`.
C25_DoubleClickTakesBlock ==
  [][/\ last' = "dblclick:block" =>
          /\ started' = started + 1 /\ Len(ops') = Len(ops) + 1
          /\ LET o == ops'[Len(ops')]
             IN /\ o.op = "create"
                /\ o.start \in Blocks(dom) /\ o.end = o.start
                /\ o.text = BlockText(dom, o.start)
                /\ IndexOf(o.text, <<NL>>, 0) = -1
     /\ \A i \in 1..Len(ops) :
          (/\ ops[i].op = "create" /\ ops[i].pc = "writing"
           /\ ops[i].content = ListDoc /\ ops[i].text = <<"a">>
           /\ ops' = RemoveAt(ops, i) /\ doc' # doc) =>
             doc' = ListMarker \o Wrap(<<"a">>)]_vars

\* The list item was double-clicked and its create has written.
C25_Witness ==
  /\ doc = ListMarker \o Wrap(<<"a">>)
  /\ started = 1 /\ ops = <<>> /\ selection = NoSel /\ rerenderTimers # <<>>

\* The text of the text nodes of a fragment, in order, markup left out.
RECURSIVE TextOf(_)
TextOf(nodes) ==
  IF nodes = <<>> THEN <<>>
  ELSE (IF Head(nodes).tag = "#text" THEN Head(nodes).data ELSE TextOf(Head(nodes).kids))
       \o TextOf(Tail(nodes))
Meaningful(nodes) == \E i \in 1..Len(TextOf(nodes)) : TextOf(nodes)[i] \notin Whitespace

\* C26: the serialization of a range is empty iff the range holds no text
\* other than whitespace.
C26_EmptyIffNoText ==
  selection # NoSel => (selection.text = <<>> <=> ~Meaningful(dom[1]))

\* C27: commit timers are torn down with their session.  At most one
\* commit timer is pending at any time, and none once the session has
\* ended.
PendingCommitTimers ==
  orphanTimers + (IF adjustmentState.debounceTimer = "armed" THEN 1 ELSE 0)

C27_CommitTimersTornDown ==
  /\ PendingCommitTimers <= 1
  /\ ~adjustmentState.active => PendingCommitTimers = 0

\* C28: across any sequence of layout-change and active-leaf-change events
\* each preview container has its selection, double-click and click
\* listeners registered at most once, and the document's selectionchange
\* and click listeners and its touch listeners are registered at most once
\* in total.
C28_AttachedOnce ==
  /\ \A v \in Views : bind.containerListeners[v] <= 1
  /\ \A v \in Views : bind.containerListeners[v] = 1 <=> v \in bind.boundContainers
  /\ bind.documentListeners <= 1
  /\ bind.touchListeners <= 1

\* Two containers bound, and the workspace events kept coming.
C28_Witness ==
  /\ bind.refreshes = MaxRefresh
  /\ bind.boundContainers = Views
  /\ bind.documentListeners = 1
  /\ last = "active-leaf-change"
\* The occurrence of selected at idx has `==` right before it and right
\* after it.
Enclosed(content, selected, idx) ==
  /\ Slice(content, Max(0, idx - 2), idx) = Delim
  /\ Slice(content, idx + Len(selected), idx + Len(selected) + 2) = Delim

\* The occurrences of the left-to-right scan that are not enclosed.
NotEnclosedOccurrences(content, selected) ==
  LET NotEnclosed(idx) == ~Enclosed(content, selected, idx)
  IN SelectSeq(findAllOccurrences(content, selected), NotEnclosed)

\* C29: findOccurrencesOutsideHighlight(doc, text) returns exactly the
\* occurrences of text, found by the left-to-right non-overlapping scan,
\* that are not both immediately preceded and immediately followed by
\* `==`; an occurrence with `==` on one side only is returned.  Stated on
\* the create that reached the scan: the positions it chose from are those.
C29_OneSidedReturned ==
  (call.op = "create" /\ call.kind \in {"ambiguous", "wrap"} /\ NoEq(call.text)) =>
    findOccurrencesOutsideHighlight(call.before, call.text)
      = NotEnclosedOccurrences(call.before, call.text)

C31_SelectionChangeWhileActive ==
  [][(adjustmentState.active /\ last' \in SelectionChangeLabels) =>
       /\ doc' = doc /\ started' = started /\ Len(ops') = Len(ops)
       /\ \A i \in 1..Len(ops) : ops'[i].pc = ops[i].pc
       /\ IF last' = "selchange:leftBlock"
            THEN adjustmentState' = NoAdj /\ selection' = NoSel /\ PendingCommitTimers' = 0
          ELSE IF selection'.collapsed
            THEN adjustmentState' = NoAdj /\ PendingCommitTimers' = 0
          ELSE /\ adjustmentState'.active
               /\ selection'.start = adjustmentState.block
               /\ selection'.end = adjustmentState.block
               /\ adjustmentState'.block = adjustmentState.block
               /\ adjustmentState'.originalText = adjustmentState.originalText
               /\ adjustmentState'.hasRange
               /\ adjustmentState'.lastSelectionRange = selection'.text]_vars

\* The canonical markup of the inline elements: what stands before and
\* after the content of each, nothing for a mark or an unknown element.
Wrapper(tag) ==
  CASE tag \in {"strong", "b"} -> <<"*", "*">>
    [] tag \in {"em", "i"} -> <<"*">>
    [] tag = "code" -> <<Backquote>>
    [] tag = "del" -> <<"~", "~">>
    [] OTHER -> <<>>

RECURSIVE Canonical(_)
Canonical(nodes) ==
  IF nodes = <<>> THEN <<>>
  ELSE LET node == Head(nodes)
           c == Canonical(node.kids)
       IN (CASE node.tag = "#text" -> node.data
             [] node.tag = "br" -> <<NL>>
             [] node.tag = "a" /\ node.href # <<>> ->
                  <<"[">> \o c \o <<"]", "(">> \o node.href \o <<")">>
             [] OTHER -> Wrapper(node.tag) \o c \o Wrapper(node.tag))
          \o Canonical(Tail(nodes))

\* C32: each node is serialized to its canonical markup: a text node to
\* its characters, strong and b to `**c**`, em and i to `*c*`, code to c
\* between backquotes, del to `~~c~~`, br to a newline, a with an href to
\* `[c](href)` and without one to c, a mark and any other element to c
\* alone; so the serialization of a block holds no `=` that its text does
\* not hold.
C32_CanonicalMarkup ==
  selection # NoSel =>
    /\ selection.text = Trim(Canonical(dom[1]))
    /\ \A i \in 1..Len(selection.text) : selection.text[i] # "="

\* A block holding a highlight and a bold word has been serialized.
C32_Witness ==
  /\ dom[1] = <<Element("mark", <<>>, <<TextNode(<<"a">>)>>),
                Element("b", <<>>, <<TextNode(<<"a">>)>>)>>
  /\ selection.text = <<"a", "*", "*", "a", "*", "*">>

\* C33: a commit completes into its own session only.  When the adjust of
\* a session resolves with success after a newer session has been entered,
\* the newer session keeps its remembered text.
C33_CommitKeepsNewerSession ==
  [][\A i \in 1..Len(ops) :
       (/\ ops[i].op = "adjust" /\ ops[i].pc = "writing" /\ ops[i].superseded
        /\ ops' = RemoveAt(ops, i) /\ doc' = ops[i].newContent
        /\ adjustmentState.active)
       => adjustmentState'.originalText = adjustmentState.originalText]_vars

\* C34: once onunload has run there is no remove button and no adjustment
\* session, and no timer or vault call that was pending at the unload
\* creates one afterwards.
C34_NothingAfterUnload ==
  bind.unloaded => /\ ~removeButtonState.shown /\ buttons = 0
                   /\ ~adjustmentState.active

\* C35: when a session and a remove button exist together and no operation
\* is in flight, the text the button is bound to is the session's
\* remembered text.  (Both are for one highlight whenever both exist: on
\* mobile every showRemoveButton is followed by enterAdjustmentMode on the
\* same mark, and nothing else creates either.)
C35_ButtonFollowsSession ==
  (adjustmentState.active /\ removeButtonState.shown /\ ops = <<>>) =>
    removeButtonState.highlightText = adjustmentState.originalText

\* C36: the button and the session that follow a create belong to the
\* highlight the create made.  After a create that succeeded by unwrapping
\* the one highlight of its text, the timer it set shows no button and
\* enters no session.
C36_NoButtonAfterUnwrap ==
  [][(/\ rerenderTimers # <<>> /\ rerenderTimers' = Tail(rerenderTimers)
      /\ Head(rerenderTimers).kind = "unwrap")
     => /\ removeButtonState' = removeButtonState /\ buttons' = buttons
        /\ adjustmentState' = adjustmentState]_vars

\* C37: while a session is Active no mouseup, keyup or touchend on the
\* container starts a create, reads or writes: the only step that starts
\* a create with a session open is the double-click, which ends the
\* session, leaves no commit timer pending and creates on the whole block.
C37_OnlyDoubleClickCreates ==
  [][(/\ adjustmentState.active
      /\ started' = started + 1 /\ ops'[Len(ops')].op = "create")
     => /\ last' = "dblclick:block"
        /\ adjustmentState' = NoAdj
        /\ PendingCommitTimers' = 0
        /\ ops' = Append(ops, ops'[Len(ops')])
        /\ ops'[Len(ops')].start \in Blocks(dom)
        /\ ops'[Len(ops')].text = BlockText(dom, ops'[Len(ops')].start)
        /\ doc' = doc]_vars

\* The text of a note, every `=` left out.
LettersOf(s) == SelectSeq(s, LAMBDA c : c # "=")

\* C38: in the handle-drag variant an adjustment never deletes or
\* duplicates note text: whenever its persistAdjustedHighlight writes, the
\* note without its delimiters is the same before and after.  Stated for
\* the shrinking drag, the new text a part of the old one.
C38_HandleDragKeepsText ==
  (/\ call.op = "handleAdjust" /\ call.written
   /\ NoEq(call.originalText) /\ NoEq(call.text)
   /\ OccurrencesOf(call.originalText, call.text) # {})
    => LettersOf(doc) = LettersOf(call.before)

\* r lists, in increasing order, the offsets of the greedy scan for needle
\* in s: the leftmost occurrence first, then each time the leftmost one
\* that starts at or after the end of the match before, until none is left.
GreedyScan(s, needle, r) ==
  LET occ == OccurrencesOf(s, needle)
      Leftmost(k, from) == /\ k \in occ /\ k >= from
                           /\ \A y \in occ : y >= from => k <= y
  IN /\ (r = <<>>) <=> (occ = {})
     /\ r # <<>> => Leftmost(r[1], 0)
     /\ \A i \in 1..(Len(r) - 1) :
          /\ Leftmost(r[i + 1], r[i] + Len(needle))
          /\ r[i + 1] - r[i] >= Len(needle)
     /\ r # <<>> => ~\E x \in occ : x >= r[Len(r)] + Len(needle)

\* C39: findAllOccurrences returns, in increasing order, exactly the
\* offsets of the greedy left-to-right scan, consecutive offsets at least
\* the needle's length apart, and the empty list for the empty needle.
\* Stated on the scans an operation that read the note has made, for
\* `==text==` and for the text itself.
C39_GreedyScan ==
  call.reads =>
    /\ GreedyScan(call.before, Wrap(call.text),
                  findAllOccurrences(call.before, Wrap(call.text)))
    /\ GreedyScan(call.before, call.text, findAllOccurrences(call.before, call.text))
    /\ findAllOccurrences(call.before, <<>>) = <<>>

\* A removal on `==a==a==`: `==a==` occurs at offsets 0 and 3, the scan
\* returns offset 0 only and the removal goes through.
C39_Witness ==
  /\ call.op = "remove" /\ call.text = <<"a">>
  /\ call.before = Wrap(<<"a">>) \o <<"a">> \o Delim
  /\ OccurrencesOf(call.before, Wrap(call.text)) = {0, 3}
  /\ findAllOccurrences(call.before, Wrap(call.text)) = <<0>>
  /\ call.written

\* ------------------------------------ the patcher on every text (totality)
\* Every string a caller can hand to the patcher: the serialized texts, the
\* empty string, and a run of `=` as long as a delimiter.
AnyTexts == Texts \cup {<<>>, Delim}

\* String.prototype.indexOf(needle, from) for any needle: the empty needle
\* is found at min(from, length), never -1.
IndexOfAny(content, needle, from) ==
  IF needle = <<>> THEN Min(from, Len(content)) ELSE IndexOf(content, needle, from)

\* The while loop of lines 354-358 and 367-375, counted: the number of
\* calls of indexOf made from offset `from`, stopped after `fuel` of them.
RECURSIVE LoopIterations(_, _, _, _)
LoopIterations(content, needle, from, fuel) ==
  IF fuel = 0 THEN 0
  ELSE LET idx == IndexOfAny(content, needle, from)
       IN IF idx = -1 THEN 1
          ELSE 1 + LoopIterations(content, needle, idx + Len(needle), fuel - 1)

\* A faulty scan without the empty-needle return of lines 353 and 364.
ScanIterationsUnguarded(content, needle, fuel) ==
  LoopIterations(content, needle, 0, fuel)

\* findAllOccurrences and findOccurrencesOutsideHighlight share the loop:
\* the empty needle returns before it (lines 353, 364).
ScanIterations(content, needle, fuel) ==
  IF needle = <<>> THEN 0 ELSE LoopIterations(content, needle, 0, fuel)

\* One call of create, adjust or remove on any note with any text.
TotalNext ==
  \/ /\ Fresh
     /\ \E markdown \in AnyTexts, env \in Envs : persistHighlight(markdown, env)
  \/ /\ Fresh
     /\ \E originalText \in AnyTexts, newText \in AnyTexts, env \in Envs :
          persistAdjustedHighlight(originalText, newText, env)
  \/ /\ Fresh
     /\ \E highlightText \in AnyTexts, env \in Envs : removeHighlight(highlightText, env)

SpecTotal == PatchInit /\ [][TotalNext]_vars

\* The needles an operation scans the note for.
NeedlesOf(c) == {Wrap(c.text), c.text, Wrap(c.originalText), c.originalText}

\* C40: the patcher is total. On every note and every text, the empty text
\* and runs of `=` included, each scan stops within one indexOf call per
\* character of the note plus one, and create, adjust and remove each end
\* with success or failure: a rejected read or modify ends the call with
\* failure and the note as it was, and the note after the call is the note
\* read or the content the call wrote.
C40_Total ==
  call # NoCall =>
    /\ \A needle \in NeedlesOf(call) :
         ScanIterations(call.before, needle, Len(call.before) + 2) <= Len(call.before) + 1
    /\ findAllOccurrences(call.before, <<>>) = <<>>
    /\ findOccurrencesOutsideHighlight(call.before, <<>>) = <<>>
    /\ call.ret \in BOOLEAN
    /\ call.ret => (call.written \/ call.kind = "same")
    /\ doc = (IF call.written THEN call.newContent ELSE call.before)
    /\ (call.env = "readFails" /\ call.reads) => (~call.ret /\ doc = call.before)
    /\ (call.env = "modifyFails" /\ call.modifies) => (~call.ret /\ doc = call.before)
    /\ call.env = "noFile" => (~call.reads /\ ~call.ret /\ doc = call.before)

\* C40 witness: a create of the empty text read a note holding letters and
\* ended with failure, the note as it was.
C40_Witness ==
  /\ call.op = "create" /\ call.text = <<>> /\ call.env = "ok"
  /\ call.reads /\ ~call.ret
  /\ call.before = <<"a", "=", "=">>
  /\ doc = call.before

====
